---- MODULE Spec2Model ----
(***************************************************************************)
(* State-machine model of the Stonk.stats balance / statistics core:       *)
(* AppState (src/src/core/state.js), the Stats view controller and the     *)
(* StatsCalculator variants (src/src/features/stats/stats.js) and the      *)
(* IncrementalStatsCalculator cache.                                       *)
(*                                                                         *)
(* Conventions                                                             *)
(*   - a JavaScript null is the empty sequence Null, a present number v is *)
(*     <<v>>, a ratio n/d is the reduced pair <<n, d>> with d > 0;         *)
(*   - a timestamp is an integer tick, TicksPerDay ticks to a calendar     *)
(*     day; a YYYY-MM-DD date string is the day number;                    *)
(*   - money is in whole dollars.                                          *)
(***************************************************************************)
EXTENDS Integers, Sequences, FiniteSets, TLC

VARIABLES
  entries,              \* state.journal.entries
  transactions,         \* state.cashFlow.transactions
  totalDeposits,        \* state.cashFlow.totalDeposits
  totalWithdrawals,     \* state.cashFlow.totalWithdrawals
  startingAccountSize,  \* state.settings.startingAccountSize
  accountCache,         \* AppState._accountCache
  now,                  \* the clock read by Date.now()
  lastCall,             \* the last public call made and what it returned
  statsCache,           \* IncrementalStatsCalculator.cache
  eodCache,             \* eodCacheManager's snapshots, by trading day
  priceCache,           \* priceTracker.cache, by ticker
  currentView,          \* state.ui.currentView
  stats,                \* the Stats controller: isCalculating, timer, refresh() position
  polls,                \* refreshPrices() invocations and detached calculate() runs
  account,              \* state.account: riskPercent, maxPositionPercent
  accountProxy,         \* AppState._accountProxy: the object the cached Proxy wraps
  listeners,            \* AppState.listeners: the callbacks registered for one event
  storage,              \* the persisted items (utils/storage.js), by key
  saves                 \* the debounce timer of saveJournal and the
                        \* _saveJournalImmediate executions in progress

vars == <<entries, transactions, totalDeposits, totalWithdrawals,
          startingAccountSize, accountCache, now, lastCall, statsCache,
          eodCache, priceCache, currentView, stats, polls, account, accountProxy, listeners, storage, saves,
          listeners, storage, saves>>

----
(* Bounds of the model *)
MaxEntries == 1
MaxTx == 1
TicksPerDay == 2

(* Program constants *)
DefaultStartingAccountSize == 10000

Null == <<>>
Some(v) == <<v>>

----
(* Generic helpers over sequences *)
RECURSIVE SumSeq(_)
SumSeq(s) == IF s = <<>> THEN 0 ELSE Head(s) + SumSeq(Tail(s))

RECURSIVE FindIndex(_, _, _)
\* Array.prototype.findIndex on the id: first index i >= from with s[i].id = id, 0 if none
FindIndex(s, id, from) ==
  IF from > Len(s) THEN 0
  ELSE IF s[from].id = id THEN from
  ELSE FindIndex(s, id, from + 1)

\* Array.prototype.splice(index, 1)
RemoveAt(s, i) == [k \in 1..(Len(s) - 1) |-> IF k < i THEN s[k] ELSE s[k + 1]]

\* Object.assign(target, updates): the fields named by updates are overwritten
ObjectAssign(target, updates) ==
  [f \in DOMAIN target |-> IF f \in DOMAIN updates THEN updates[f] ELSE target[f]]

----
(* Realized P&L of one trade and of a trade list (core/utils/tradeCalculations.js) *)
getTradeRealizedPnL(t) ==
  IF t.status = "closed" THEN t.pnl
  ELSE IF t.status = "trimmed" THEN SumSeq(t.trims)
  ELSE 0

RECURSIVE calculateRealizedPnL(_)
calculateRealizedPnL(trades) ==
  IF trades = <<>> THEN 0
  ELSE (IF Head(trades).status \in {"closed", "trimmed"}
          THEN getTradeRealizedPnL(Head(trades)) ELSE 0)
       + calculateRealizedPnL(Tail(trades))

----
(* AppState: the account cache.  A ledger L is the record of the fields    *)
(* the getters read: entries, transactions, totalDeposits,                 *)
(* totalWithdrawals, startingAccountSize.                                  *)

Ledger(e, tx, dep, wd, start) ==
  [entries |-> e, transactions |-> tx, totalDeposits |-> dep,
   totalWithdrawals |-> wd, startingAccountSize |-> start]

RECURSIVE HashTradesSum(_)
HashTradesSum(trades) ==
  IF trades = <<>> THEN 0
  ELSE Head(trades).id + getTradeRealizedPnL(Head(trades)) + HashTradesSum(Tail(trades))

_hashTrades(L) == Len(L.entries) + HashTradesSum(L.entries)

_hashCashFlow(L) == Len(L.transactions) + L.totalDeposits + L.totalWithdrawals

CurrentHashes(L) ==
  [tradesHash |-> Some(_hashTrades(L)),
   cashFlowHash |-> Some(_hashCashFlow(L)),
   startingBalance |-> Some(L.startingAccountSize)]

\* returns the answer and the cache with _tempHashes memoized when changed
_needsRecalculation(c, L) ==
  LET h == CurrentHashes(L)
      changed == \/ h.tradesHash # c.dependencies.tradesHash
                 \/ h.cashFlowHash # c.dependencies.cashFlowHash
                 \/ h.startingBalance # c.dependencies.startingBalance
  IN [changed |-> changed,
      cache |-> IF changed THEN [c EXCEPT !.tempHashes = Some(h)] ELSE c]

_updateCacheDependencies(c, L) ==
  IF c.tempHashes # Null
    THEN [c EXCEPT !.dependencies = c.tempHashes[1], !.tempHashes = Null]
    ELSE [c EXCEPT !.dependencies = CurrentHashes(L)]

_invalidateAccountCache(c) ==
  [c EXCEPT !.realizedPnL = Null, !.currentSize = Null]

RecalcRealizedPnL(c, L) ==
  LET pnl == calculateRealizedPnL(L.entries)
  IN [value |-> pnl,
      cache |-> _updateCacheDependencies([c EXCEPT !.realizedPnL = Some(pnl)], L)]

\* get realizedPnL(): the value returned and the cache left behind
realizedPnLGetter(c, L) ==
  IF c.realizedPnL # Null
    THEN LET n == _needsRecalculation(c, L)
         IN IF ~n.changed
              THEN [value |-> c.realizedPnL[1], cache |-> n.cache]
              ELSE RecalcRealizedPnL(n.cache, L)
    ELSE RecalcRealizedPnL(c, L)

getCashFlowNet(L) == L.totalDeposits - L.totalWithdrawals

RecalcCurrentSize(c, L) ==
  LET netCashFlow == getCashFlowNet(L)
      r == realizedPnLGetter(c, L)
      size == L.startingAccountSize + r.value + netCashFlow
  IN [value |-> size, cache |-> [r.cache EXCEPT !.currentSize = Some(size)]]

\* get currentSize(): the value returned and the cache left behind
currentSizeGetter(c, L) ==
  IF c.currentSize # Null
    THEN LET n == _needsRecalculation(c, L)
         IN IF ~n.changed
              THEN [value |-> c.currentSize[1], cache |-> n.cache]
              ELSE RecalcCurrentSize(n.cache, L)
    ELSE RecalcCurrentSize(c, L)

EmptyAccountCache ==
  [realizedPnL |-> Null, currentSize |-> Null, tempHashes |-> Null,
   dependencies |-> [tradesHash |-> Null, cashFlowHash |-> Null,
                     startingBalance |-> Null]]

----
(* Exact ratios for the quotients the calculators return *)
Abs(x) == IF x < 0 THEN -x ELSE x

RECURSIVE GCD(_, _)
GCD(a, b) == IF b = 0 THEN a ELSE GCD(b, a % b)

\* n / d for d # 0, reduced, denominator positive
Frac(n, d) ==
  LET g == GCD(Abs(n), Abs(d))
      sgn == IF d < 0 THEN -1 ELSE 1
  IN <<(sgn * n) \div g, (sgn * d) \div g>>

RInt(n) == <<n, 1>>
RMul(x, y) == Frac(x[1] * y[1], x[2] * y[2])
RDiv(x, y) == Frac(x[1] * y[2], x[2] * y[1])
RAdd(x, y) == Frac(x[1] * y[2] + y[1] * x[2], x[2] * y[2])
RAbs(x) == <<Abs(x[1]), x[2]>>

IsClosedOrTrimmed(e) == e.status = "closed" \/ e.status = "trimmed"

RECURSIVE SumPnL(_)
\* reduce((sum, t) => sum + getTradeRealizedPnL(t), 0)
SumPnL(trades) ==
  IF trades = <<>> THEN 0
  ELSE getTradeRealizedPnL(Head(trades)) + SumPnL(Tail(trades))

----
(* StatsCalculator, filter-based definitions (stats.js 1266-1586) *)
calculateWinRate_Zero(trades) ==
  LET closedTrades == SelectSeq(trades, IsClosedOrTrimmed)
      wins == SelectSeq(closedTrades, LAMBDA t : getTradeRealizedPnL(t) > 0)
  IN IF Len(closedTrades) = 0 THEN RInt(0)
     ELSE RMul(Frac(Len(wins), Len(closedTrades)), RInt(100))

calculateWinRate(trades) ==
  LET closedTrades == SelectSeq(trades, IsClosedOrTrimmed)
      wins == SelectSeq(closedTrades, LAMBDA t : getTradeRealizedPnL(t) > 0)
  IN IF Len(closedTrades) = 0 THEN Null
     ELSE RMul(Frac(Len(wins), Len(closedTrades)), RInt(100))

calculateWinsLosses_StrictLoss(trades) ==
  LET closedTrades == SelectSeq(trades, IsClosedOrTrimmed)
      wins == SelectSeq(closedTrades, LAMBDA t : getTradeRealizedPnL(t) > 0)
      losses == SelectSeq(closedTrades, LAMBDA t : getTradeRealizedPnL(t) < 0)
  IN [wins |-> Len(wins), losses |-> Len(losses), total |-> Len(closedTrades)]

calculateWinsLosses(trades) ==
  LET closedTrades == SelectSeq(trades, IsClosedOrTrimmed)
      wins == SelectSeq(closedTrades, LAMBDA t : getTradeRealizedPnL(t) > 0)
      losses == SelectSeq(closedTrades, LAMBDA t : getTradeRealizedPnL(t) <= 0)
  IN [wins |-> Len(wins), losses |-> Len(losses), total |-> Len(closedTrades)]

calculateAvgWinLossRatio(trades) ==
  LET closedTrades == SelectSeq(trades, IsClosedOrTrimmed)
      wins == SelectSeq(closedTrades, LAMBDA t : getTradeRealizedPnL(t) > 0)
      losses == SelectSeq(closedTrades, LAMBDA t : getTradeRealizedPnL(t) < 0)
      totalWins == SumPnL(wins)
      totalLosses == SumPnL(losses)
      avgWin == Frac(totalWins, Len(wins))
      avgLoss == RAbs(Frac(totalLosses, Len(losses)))
  IN IF Len(closedTrades) = 0 THEN Null
     ELSE IF Len(wins) = 0 \/ Len(losses) = 0 THEN Null
     ELSE IF avgLoss = RInt(0) THEN Null
     ELSE RDiv(avgWin, avgLoss)

calculateTradeExpectancy_Minus(trades) ==
  LET closedTrades == SelectSeq(trades, IsClosedOrTrimmed)
      wins == SelectSeq(closedTrades, LAMBDA t : getTradeRealizedPnL(t) > 0)
      losses == SelectSeq(closedTrades, LAMBDA t : getTradeRealizedPnL(t) < 0)
      totalTrades == Len(closedTrades)
      winRate == Frac(Len(wins), totalTrades)
      lossRate == Frac(Len(losses), totalTrades)
      avgWin == IF Len(wins) > 0 THEN Frac(SumPnL(wins), Len(wins)) ELSE RInt(0)
      avgLoss == IF Len(losses) > 0 THEN Frac(SumPnL(losses), Len(losses)) ELSE RInt(0)
  IN IF Len(closedTrades) = 0 THEN Null
     ELSE RAdd(RMul(winRate, avgWin), RMul(RInt(-1), RMul(lossRate, avgLoss)))

calculateTradeExpectancy(trades) ==
  LET closedTrades == SelectSeq(trades, IsClosedOrTrimmed)
      wins == SelectSeq(closedTrades, LAMBDA t : getTradeRealizedPnL(t) > 0)
      losses == SelectSeq(closedTrades, LAMBDA t : getTradeRealizedPnL(t) < 0)
      totalTrades == Len(closedTrades)
      winRate == Frac(Len(wins), totalTrades)
      lossRate == Frac(Len(losses), totalTrades)
      totalWins == SumPnL(wins)
      totalLosses == SumPnL(losses)
      avgWin == IF Len(wins) > 0 THEN Frac(totalWins, Len(wins)) ELSE RInt(0)
      avgLoss == IF Len(losses) > 0 THEN Frac(totalLosses, Len(losses)) ELSE RInt(0)
  IN IF Len(closedTrades) = 0 THEN Null
     ELSE RAdd(RMul(winRate, avgWin), RMul(lossRate, avgLoss))

----
(* StatsCalculator, single-pass definitions (stats.js 1599-1806) *)
RECURSIVE ClosedTradeLoop(_, _)
\* the for-of loop of _getClosedTradeMetrics over the closed trades
ClosedTradeLoop(rest, acc) ==
  IF rest = <<>> THEN acc
  ELSE LET trade == Head(rest)
           pnl == getTradeRealizedPnL(trade)
       IN IF pnl > 0
            THEN ClosedTradeLoop(Tail(rest),
                   [acc EXCEPT !.wins = Append(@, trade), !.totalWins = @ + pnl])
            ELSE ClosedTradeLoop(Tail(rest),
                   [acc EXCEPT !.losses = Append(@, trade), !.totalLosses = @ + pnl])

_getClosedTradeMetrics(trades) ==
  LET closedTrades == SelectSeq(trades, IsClosedOrTrimmed)
      acc == ClosedTradeLoop(closedTrades,
               [wins |-> <<>>, losses |-> <<>>, totalWins |-> 0, totalLosses |-> 0])
  IN IF Len(closedTrades) = 0
       THEN [closedTrades |-> <<>>, wins |-> <<>>, losses |-> <<>>, totalWins |-> 0,
             totalLosses |-> 0, winRate |-> Null, winsCount |-> 0, lossesCount |-> 0]
       ELSE [closedTrades |-> closedTrades, wins |-> acc.wins, losses |-> acc.losses,
             totalWins |-> acc.totalWins, totalLosses |-> acc.totalLosses,
             winRate |-> RMul(Frac(Len(acc.wins), Len(closedTrades)), RInt(100)),
             winsCount |-> Len(acc.wins), lossesCount |-> Len(acc.losses)]

calculateWinRateSinglePass(trades) == _getClosedTradeMetrics(trades).winRate

calculateWinsLossesSinglePass(trades) ==
  LET metrics == _getClosedTradeMetrics(trades)
  IN [wins |-> metrics.winsCount, losses |-> metrics.lossesCount,
      total |-> Len(metrics.closedTrades)]

calculateAvgWinLossRatioSinglePass(trades) ==
  LET metrics == _getClosedTradeMetrics(trades)
      avgWin == Frac(metrics.totalWins, Len(metrics.wins))
      avgLoss == RAbs(Frac(metrics.totalLosses, Len(metrics.losses)))
  IN IF Len(metrics.wins) = 0 \/ Len(metrics.losses) = 0 THEN Null
     ELSE IF avgLoss = RInt(0) THEN Null ELSE RDiv(avgWin, avgLoss)

calculateProfitFactor_NoAbs(trades) ==
  LET metrics == _getClosedTradeMetrics(trades)
  IN IF Len(metrics.wins) = 0 \/ Len(metrics.losses) = 0 THEN Null
     ELSE IF metrics.totalLosses = 0 THEN Null
     ELSE Frac(metrics.totalWins, metrics.totalLosses)

calculateProfitFactor(trades) ==
  LET metrics == _getClosedTradeMetrics(trades)
      totalLossesAbs == Abs(metrics.totalLosses)
  IN IF Len(metrics.wins) = 0 \/ Len(metrics.losses) = 0 THEN Null
     ELSE IF totalLossesAbs = 0 THEN Null
     ELSE Frac(metrics.totalWins, totalLossesAbs)

calculateTradeExpectancySinglePass(trades) ==
  LET metrics == _getClosedTradeMetrics(trades)
      totalTrades == Len(metrics.closedTrades)
      winRate == Frac(metrics.winsCount, totalTrades)
      lossRate == Frac(metrics.lossesCount, totalTrades)
      avgWin == IF metrics.winsCount > 0
                  THEN Frac(metrics.totalWins, metrics.winsCount) ELSE RInt(0)
      avgLoss == IF metrics.lossesCount > 0
                   THEN Frac(metrics.totalLosses, metrics.lossesCount) ELSE RInt(0)
  IN IF Len(metrics.closedTrades) = 0 THEN Null
     ELSE RAdd(RMul(winRate, avgWin), RMul(lossRate, avgLoss))

----
(* Dates.  getDateStringFromTimestamp / marketHours.formatDate: the        *)
(* calendar day a timestamp falls on.                                      *)
Days == 0..2
Clock == 1..2
Tickers == {"AAPL"}

getDateStringFromTimestamp(obj) == obj.timestamp \div TicksPerDay

getTradeEntryDateString(trade) == getDateStringFromTimestamp(trade)

getTransactionDateString(tx) == getDateStringFromTimestamp(tx)

formatDate(ts) == ts \div TicksPerDay

\* Math.min over a non-empty sequence of timestamps
RECURSIVE MinTimestamp(_)
MinTimestamp(txs) ==
  IF Len(txs) = 1 THEN Head(txs).timestamp
  ELSE LET m == MinTimestamp(Tail(txs))
       IN IF Head(txs).timestamp < m THEN Head(txs).timestamp ELSE m

----
(* The EOD snapshot cache (core/eodCacheManager.js) and the equity-curve   *)
(* manager's invalidation entry points (EquityCurveManager.js).  A         *)
(* snapshot carries the ghost flag stale: it was saved before the latest   *)
(* ledger change.                                                          *)
EmptyEODCache == [d \in Days |-> Null]

clearAllData(eod) == [d \in DOMAIN eod |-> Null]

invalidateFromDate(eod, dateStr) ==
  [d \in DOMAIN eod |-> IF d >= dateStr THEN Null ELSE eod[d]]

invalidateForTrade(eod, trade) ==
  invalidateFromDate(eod, getTradeEntryDateString(trade))

getEODData(eod, dateStr) == IF dateStr \in DOMAIN eod THEN eod[dateStr] ELSE Null

hasEODData(eod, dateStr) == getEODData(eod, dateStr) # Null

\* eodCacheManager.saveEODSnapshot: upsert, last write wins
putEODSnapshot(eod, dateStr, snapshot) == [eod EXCEPT ![dateStr] = Some(snapshot)]

\* EquityCurveManager.getBalanceOnDate: the balance of a trusted snapshot, else null
getBalanceOnDate(eod, dateStr) ==
  LET eodData == getEODData(eod, dateStr)
  IN IF eodData # Null /\ ~eodData[1].incomplete THEN Some(eodData[1].balance) ELSE Null

\* ghost: the days whose snapshot an operation removed
Dropped(before, after) == {d \in Days : before[d] # Null /\ after[d] = Null}

\* ghost: every snapshot present when the ledger changes predates the change
MarkStale(eod) ==
  [d \in DOMAIN eod |-> IF eod[d] = Null THEN Null
                          ELSE Some([eod[d][1] EXCEPT !.stale = TRUE])]

----
(* Clock and calendar helpers (core/utils.js) *)
getCurrentWeekday(t) == t

todayStr(t) == formatDate(getCurrentWeekday(t))

getPreviousBusinessDay(day) == day - 1

----
(* AccountBalanceCalculator and the trade predicates it shares *)
isOpenTrade(t) == t.status \in {"open", "trimmed"}

\* A stored exitDate is a plain date string, <<day>>, or an ISO timestamp with a time
\* part, <<day, tick of the day>>.
DateOnlyString(day) == <<day>>
ISOString(ts) == <<ts \div TicksPerDay, ts % TicksPerDay>>

\* the string comparison exitDate > dateStr: by calendar day first; on the same day
\* a string that goes on after the date ('...T15:30:00.000Z') is the greater one
StringGreaterThanDate(str, dateStr) ==
  str[1] > dateStr \/ (str[1] = dateStr /\ Len(str) > 1)

isTradeOpenOnDate(trade, dateStr) ==
  LET entryDate == getTradeEntryDateString(trade)
      enteredBefore == entryDate <= dateStr
      notClosedYet == trade.exitDate = Null \/ StringGreaterThanDate(trade.exitDate, dateStr)
  IN enteredBefore /\ notClosedYet

NoPrices == [k \in Tickers |-> Null]

RECURSIVE getNetCashFlow(_)
getNetCashFlow(txs) ==
  IF txs = <<>> THEN 0
  ELSE (IF Head(txs).type = "deposit" THEN Head(txs).amount ELSE -Head(txs).amount)
         + getNetCashFlow(Tail(txs))

RECURSIVE SumSigned(_)
\* reduce((sum, txn) => sum + (txn.type === 'deposit' ? txn.amount : -txn.amount), 0)
SumSigned(txs) ==
  IF txs = <<>> THEN 0
  ELSE (IF Head(txs).type = "deposit" THEN Head(txs).amount ELSE -Head(txs).amount)
         + SumSigned(Tail(txs))

getCashFlowUpToDate_Before(txs, dateStr) ==
  SumSigned(SelectSeq(txs, LAMBDA txn : getTransactionDateString(txn) < dateStr))

getCashFlowUpToDate(txs, dateStr) ==
  SumSigned(SelectSeq(txs, LAMBDA txn : getTransactionDateString(txn) <= dateStr))

getCashFlowOnDate(txs, dateStr) ==
  SumSigned(SelectSeq(txs, LAMBDA txn : getTransactionDateString(txn) = dateStr))

getCashFlowInRange(txs, startDate, endDate) ==
  SumSigned(SelectSeq(txs, LAMBDA txn : /\ getTransactionDateString(txn) >= startDate
                                        /\ getTransactionDateString(txn) <= endDate))

RECURSIVE UnrealizedPnL(_, _)
\* (price - entry) * shares over the priced positions; an unpriced one adds 0
UnrealizedPnL(trades, prices) ==
  IF trades = <<>> THEN 0
  ELSE LET t == Head(trades)
       IN (IF prices[t.ticker] # Null THEN (prices[t.ticker][1] - t.entry) * t.shares
           ELSE 0) + UnrealizedPnL(Tail(trades), prices)

calculateCurrentBalance(startingBalance, allTrades, cashFlowTransactions, currentPrices) ==
  LET realizedBalance == startingBalance + calculateRealizedPnL(allTrades)
                           + getNetCashFlow(cashFlowTransactions)
      unrealizedPnL == UnrealizedPnL(SelectSeq(allTrades, isOpenTrade), currentPrices)
  IN [balance |-> realizedBalance + unrealizedPnL, realizedBalance |-> realizedBalance,
      unrealizedPnL |-> unrealizedPnL]

calculateBalanceAtDate(dateStr, startingBalance, allTrades, cashFlowTransactions, eodPrices) ==
  LET exited == SelectSeq(allTrades,
                  LAMBDA t : /\ IsClosedOrTrimmed(t)
                             /\ IF t.exitDate # Null THEN t.exitDate[1] <= dateStr
                                ELSE getTradeEntryDateString(t) <= dateStr)
      dated == SelectSeq(cashFlowTransactions,
                 LAMBDA tx : getTransactionDateString(tx) <= dateStr)
      openOnDate == SelectSeq(allTrades,
                      LAMBDA t : isOpenTrade(t) /\ isTradeOpenOnDate(t, dateStr))
      realizedBalance == startingBalance + calculateRealizedPnL(exited)
                           + getNetCashFlow(dated)
      unrealizedPnL == UnrealizedPnL(openOnDate, eodPrices)
  IN [balance |-> realizedBalance + unrealizedPnL, realizedBalance |-> realizedBalance,
      unrealizedPnL |-> unrealizedPnL]

----
(* StatsCalculator: balances by date (stats.js 1272-1580) *)
calculateCurrentAccount(L, pc) ==
  calculateCurrentBalance(L.startingAccountSize, L.entries, L.transactions, pc).balance

getBalanceForDate_TrustAll(eod, dateStr, today, L, pc) ==
  LET eodData == getEODData(eod, dateStr)
  IN IF dateStr = today THEN Some(calculateCurrentAccount(L, pc))
     ELSE IF eodData # Null THEN Some(eodData[1].balance)
     ELSE Null

getBalanceForDate(eod, dateStr, today, L, pc) ==
  LET eodData == getEODData(eod, dateStr)
  IN IF dateStr = today THEN Some(calculateCurrentAccount(L, pc))
     ELSE IF eodData # Null /\ ~eodData[1].incomplete THEN Some(eodData[1].balance)
     ELSE Null

\* _calculateBalanceAtDate: live prices for today, else the historical closes fetched
_calculateBalanceAtDate(dateStr, today, L, pc, historical) ==
  LET prices == IF dateStr = today THEN pc ELSE historical
  IN calculateBalanceAtDate(dateStr, L.startingAccountSize, L.entries, L.transactions,
                            prices).balance

calculateNetCashFlow(L, dateFrom, dateTo) ==
  IF dateFrom = Null /\ dateTo = Null THEN getCashFlowNet(L)
  ELSE getNetCashFlow(SelectSeq(L.transactions,
         LAMBDA tx : /\ dateFrom # Null => formatDate(tx.timestamp) >= dateFrom[1]
                     /\ dateTo # Null => formatDate(tx.timestamp) <= dateTo[1]))

RECURSIVE MinEntryTimestamp(_)
MinEntryTimestamp(es) ==
  IF Len(es) = 1 THEN Head(es).timestamp
  ELSE LET m == MinEntryTimestamp(Tail(es))
       IN IF Head(es).timestamp < m THEN Head(es).timestamp ELSE m

\* calculatePnL(dateFrom, dateTo); each balance is returned with the place it came from
calculatePnL(eod, today, L, pc, historical, dateFrom, dateTo) ==
  IF Len(L.entries) = 0
    THEN [pnl |-> 0, startingBalance |-> L.startingAccountSize,
          endingBalance |-> L.startingAccountSize, startDateStr |-> today,
          startSource |-> "startingAccountSize", endSource |-> "startingAccountSize"]
  ELSE
    LET earliestTradeDateStr == formatDate(MinEntryTimestamp(L.entries))
        fromStart == dateFrom = Null \/ dateFrom[1] = earliestTradeDateStr
        dayBeforeStr == getPreviousBusinessDay(dateFrom[1])
        curveBalance == getBalanceOnDate(eod, dayBeforeStr)
        startBalance ==
          IF fromStart THEN L.startingAccountSize
          ELSE IF curveBalance # Null THEN curveBalance[1]
          ELSE _calculateBalanceAtDate(dayBeforeStr, today, L, pc, historical)
        endDateStr == IF dateTo # Null THEN dateTo[1] ELSE today
        cached == getBalanceForDate(eod, endDateStr, today, L, pc)
        endBalance == IF cached # Null THEN cached[1]
                      ELSE _calculateBalanceAtDate(endDateStr, today, L, pc, historical)
    IN [pnl |-> endBalance - startBalance - calculateNetCashFlow(L, dateFrom, dateTo),
        startingBalance |-> startBalance,
        endingBalance |-> endBalance,
        startDateStr |-> IF fromStart THEN earliestTradeDateStr ELSE dayBeforeStr,
        startSource |-> IF fromStart THEN "startingAccountSize"
                        ELSE IF curveBalance # Null THEN "getBalanceOnDate"
                        ELSE "_calculateBalanceAtDate",
        endSource |-> IF cached # Null THEN "getBalanceForDate"
                      ELSE "_calculateBalanceAtDate"]

----
(* Stats controller (features/stats/stats.js)                              *)
----
(* Asset multipliers (assetTypeUtils) and priceTracker's unrealized P&L *)
OPTIONS_CONTRACT_MULTIPLIER == 100

getAssetMultiplier(assetType) ==
  IF assetType = "options" THEN OPTIONS_CONTRACT_MULTIPLIER ELSE 1

getTradeMultiplier(trade) == getAssetMultiplier(trade.assetType)

\* priceTracker.getPrice: the cached price data of the ticker, if any
getPrice(pc, ticker) == pc[ticker]

\* trade.remainingShares || trade.shares: an absent or zero remainingShares is falsy
RemainingOrShares(trade) ==
  IF trade.remainingShares # Null /\ trade.remainingShares[1] # 0
    THEN trade.remainingShares[1] ELSE trade.shares

calculateUnrealizedPnL(pc, trade) ==
  LET priceData == getPrice(pc, trade.ticker)
      currentPrice == priceData[1]
      shares == RemainingOrShares(trade)
      entry == trade.entry
  IN IF priceData = Null THEN Null
     ELSE Some([currentPrice |-> currentPrice,
                unrealizedPnL |-> (currentPrice - entry) * shares,
                unrealizedPercent |-> RMul(Frac(currentPrice - entry, entry), RInt(100)),
                shares |-> shares, entry |-> entry])

RECURSIVE TotalUnrealizedLoop(_, _, _)
\* the for-of loop of calculateTotalUnrealizedPnL
TotalUnrealizedLoop(pc, rest, acc) ==
  IF rest = <<>> THEN acc
  ELSE LET pnl == calculateUnrealizedPnL(pc, Head(rest))
       IN TotalUnrealizedLoop(pc, Tail(rest),
            IF pnl # Null
              THEN [totalPnL |-> acc.totalPnL + pnl[1].unrealizedPnL,
                    tradeCount |-> acc.tradeCount + 1]
              ELSE acc)

\* calculateTotalUnrealizedPnL(): over the open and trimmed journal entries
calculateTotalUnrealizedPnL(pc, trades, currentSize) ==
  LET activeTrades == SelectSeq(trades, LAMBDA t : t.status = "open" \/ t.status = "trimmed")
      acc == TotalUnrealizedLoop(pc, activeTrades, [totalPnL |-> 0, tradeCount |-> 0])
  IN [totalPnL |-> acc.totalPnL, tradeCount |-> acc.tradeCount,
      percentOfAccount |-> RMul(Frac(acc.totalPnL, currentSize), RInt(100))]

getOpenTrades(trades) == SelectSeq(trades, LAMBDA t : t.status \in {"open", "trimmed"})

PriceCacheSize(pc) == Cardinality({k \in DOMAIN pc : pc[k] # Null})

\* Stats.refresh() up to its first suspension
refresh(s, trades, pc) ==
  IF s.isCalculating THEN s
  ELSE [s EXCEPT !.isCalculating = TRUE,
                 !.refreshPc = IF Len(getOpenTrades(trades)) > 0 /\ PriceCacheSize(pc) = 0
                                 THEN "fetch" ELSE "calc_build"]

RefreshIfOnStats(s, view, trades, pc) ==
  IF view = "stats" THEN refresh(s, trades, pc) ELSE s

EmptyStatsCache ==
  [version |-> 1, tradeCount |-> 0, tradeChecksum |-> Null, winRate |-> Null,
   winsLosses |-> [wins |-> 0, losses |-> 0, total |-> 0],
   avgWin |-> Null, avgLoss |-> Null, profitFactor |-> Null,
   expectancy |-> Null, largestWin |-> Null, largestLoss |-> Null,
   avgHoldTime |-> Null, closedTradeIds |-> <<>>,
   lastUpdated |-> Null, cachedAt |-> 0]

\* _createEmptyCache(): the empty record, stamped with Date.now()
_createEmptyCache == [EmptyStatsCache EXCEPT !.cachedAt = now]

invalidateCache_Keep(cache) == cache

\* IncrementalStatsCalculator.invalidateCache(), up to its await
invalidateCache(cache) == _createEmptyCache

RECURSIVE MapIds(_)
\* trades.map(t => t.id)
MapIds(trades) ==
  IF trades = <<>> THEN <<>> ELSE <<Head(trades).id>> \o MapIds(Tail(trades))

\* Strings are sequences of characters.
DigitChar(d) == <<"0", "1", "2", "3", "4", "5", "6", "7", "8", "9">>[d + 1]

RECURSIVE NumberToString(_)
\* String(n) for an integer n >= 0
NumberToString(n) ==
  IF n < 10 THEN <<DigitChar(n)>>
  ELSE NumberToString(n \div 10) \o <<DigitChar(n % 10)>>

\* t.id || '' as the string that sort() compares and join() writes
IdString(id) == IF id = 0 THEN <<>> ELSE NumberToString(id)

CharCode(ch) == CHOOSE d \in 0..9 : DigitChar(d) = ch

RECURSIVE StringLess(_, _)
\* the default comparison of Array.prototype.sort: by code units, a proper prefix first
StringLess(a, b) ==
  IF b = <<>> THEN FALSE
  ELSE IF a = <<>> THEN TRUE
  ELSE IF Head(a) # Head(b) THEN CharCode(Head(a)) < CharCode(Head(b))
  ELSE StringLess(Tail(a), Tail(b))

RECURSIVE MapIdStrings(_)
\* trades.map(t => t.id || '')
MapIdStrings(trades) ==
  IF trades = <<>> THEN <<>>
  ELSE <<IdString(Head(trades).id)>> \o MapIdStrings(Tail(trades))

RECURSIVE Join(_)
\* Array.prototype.join(',')
Join(strs) ==
  IF strs = <<>> THEN <<>>
  ELSE IF Len(strs) = 1 THEN Head(strs)
  ELSE Head(strs) \o <<",">> \o Join(Tail(strs))

_calculateTradeChecksum_Unsorted(trades) ==
  IF Len(trades) = 0 THEN <<"0">>
  ELSE NumberToString(Len(trades)) \o <<":">> \o Join(MapIdStrings(trades))

\* `${trades.length}:${ids.sort().join(',')}`, '0' for the empty list
_calculateTradeChecksum(trades) ==
  IF Len(trades) = 0 THEN <<"0">>
  ELSE NumberToString(Len(trades)) \o <<":">>
         \o Join(SortSeq(MapIdStrings(trades), StringLess))

_isCacheValid_NoCount(cache, trades) ==
  cache # Null /\ cache.tradeChecksum = _calculateTradeChecksum(trades)

_isCacheValid(cache, trades) ==
  IF cache = Null \/ cache.tradeCount = 0 THEN FALSE
  ELSE cache.tradeChecksum = _calculateTradeChecksum(trades)

\* StatsCalculator.calculateAverageWin / calculateAverageLoss / calculateLargestWin /
\* calculateLargestLoss
calculateAverageWin(trades) ==
  LET metrics == _getClosedTradeMetrics(trades)
  IN IF Len(metrics.wins) = 0 THEN Null ELSE Frac(metrics.totalWins, Len(metrics.wins))

calculateAverageLoss(trades) ==
  LET metrics == _getClosedTradeMetrics(trades)
  IN IF Len(metrics.losses) = 0 THEN Null
     ELSE Frac(metrics.totalLosses, Len(metrics.losses))

RECURSIVE MaxPnL(_)
MaxPnL(trades) ==
  IF Len(trades) = 1 THEN getTradeRealizedPnL(Head(trades))
  ELSE LET m == MaxPnL(Tail(trades))
           h == getTradeRealizedPnL(Head(trades))
       IN IF h > m THEN h ELSE m

RECURSIVE MinPnL(_)
MinPnL(trades) ==
  IF Len(trades) = 1 THEN getTradeRealizedPnL(Head(trades))
  ELSE LET m == MinPnL(Tail(trades))
           h == getTradeRealizedPnL(Head(trades))
       IN IF h < m THEN h ELSE m

calculateLargestWin(trades) ==
  LET closedTrades == SelectSeq(trades, IsClosedOrTrimmed)
  IN IF Len(closedTrades) = 0 THEN Null ELSE RInt(MaxPnL(closedTrades))

calculateLargestLoss(trades) ==
  LET closedTrades == SelectSeq(trades, IsClosedOrTrimmed)
  IN IF Len(closedTrades) = 0 THEN Null ELSE RInt(MinPnL(closedTrades))

\* StatsCalculator.calculateExpectancy: the expected value per closed trade
calculateExpectancy(trades) == calculateTradeExpectancySinglePass(trades)

RECURSIVE SumHoldDays(_)
SumHoldDays(trades) ==
  IF trades = <<>> THEN 0
  ELSE (Head(trades).exitDate[1] - getTradeEntryDateString(Head(trades)))
         + SumHoldDays(Tail(trades))

\* StatsCalculator.calculateAvgHoldTime: mean days between entry and exit of the
\* closed trades
calculateAvgHoldTime(trades) ==
  LET exited == SelectSeq(trades, LAMBDA t : t.status = "closed" /\ t.exitDate # Null)
  IN IF Len(exited) = 0 THEN Null ELSE Frac(SumHoldDays(exited), Len(exited))

\* the record a recomputation builds
RecomputedStats(trades) ==
  [version |-> 1, tradeCount |-> Len(trades),
        tradeChecksum |-> _calculateTradeChecksum(trades),
        winRate |-> calculateWinRateSinglePass(trades),
        winsLosses |-> calculateWinsLossesSinglePass(trades),
        avgWin |-> calculateAverageWin(trades),
        avgLoss |-> calculateAverageLoss(trades),
        profitFactor |-> calculateProfitFactor(trades),
        expectancy |-> calculateExpectancy(trades),
        largestWin |-> calculateLargestWin(trades),
        largestLoss |-> calculateLargestLoss(trades),
        avgHoldTime |-> calculateAvgHoldTime(trades),
        closedTradeIds |-> MapIds(SelectSeq(trades, IsClosedOrTrimmed)),
        lastUpdated |-> Some(now), cachedAt |-> now]

CachedStats_Always(cache, trades) == RecomputedStats(trades)

\* the cache calculateAndCacheStats(trades) leaves behind
CachedStats(cache, trades) ==
  IF _isCacheValid(cache, trades) THEN cache ELSE RecomputedStats(trades)

\* the per-metric overrides of IncrementalStatsCalculator
incrementalWinRate(cache, trades) ==
  IF _isCacheValid(cache, trades) THEN cache.winRate
  ELSE calculateWinRateSinglePass(trades)

incrementalWinsLosses(cache, trades) ==
  IF _isCacheValid(cache, trades) THEN cache.winsLosses
  ELSE calculateWinsLossesSinglePass(trades)

incrementalProfitFactor(cache, trades) ==
  IF _isCacheValid(cache, trades) THEN cache.profitFactor
  ELSE calculateProfitFactor(trades)

\* Stats.init: the journalEntryAdded / Updated / Deleted handlers
OnJournalEntryChanged_eod(eod, entry) == invalidateForTrade(eod, entry)

OnJournalEntryChanged(entry) ==
  /\ eodCache' = OnJournalEntryChanged_eod(MarkStale(eodCache), entry)
  /\ statsCache' = invalidateCache(statsCache)
  /\ stats' = RefreshIfOnStats(stats, currentView, entries', priceCache)

\* Stats.init: the cashFlowChanged handler
OnCashFlowChanged_eod(eod, txs) ==
  IF Len(txs) > 0
    THEN invalidateFromDate(eod, formatDate(MinTimestamp(txs)))
    ELSE clearAllData(eod)

\* Stats.init: the accountSizeChanged handler
OnAccountSizeChanged_eod_Keep(eod) == eod

OnAccountSizeChanged_eod(eod) == clearAllData(eod)

\* Stats.init: the settingsChanged handler
OnSettingsChanged_eod(eod) == clearAllData(eod)

----
(* AppState: the public operations.  Each action is the whole call,        *)
(* including the listeners that emit() runs synchronously.                 *)

\* the refresh() a change handler calls returns at its isCalculating guard
RefreshSkipped == currentView = "stats" /\ stats.isCalculating

\* AppState.saveJournal(): the debounced save is (re)scheduled
saveJournal(sv) == [sv EXCEPT !.timer = TRUE]

CurrentLedger ==
  Ledger(entries, transactions, totalDeposits, totalWithdrawals, startingAccountSize)

addJournalEntry(entry) ==
  LET newEntry == [entry EXCEPT !.id = now]
  IN /\ entries' = <<newEntry>> \o entries
     /\ accountCache' = _invalidateAccountCache(accountCache)
     /\ OnJournalEntryChanged(newEntry)
     /\ saves' = saveJournal(saves)
     /\ lastCall' = [op |-> "addJournalEntry", value |-> Null,
                     dates |-> {getTradeEntryDateString(newEntry)},
                     dropped |-> Dropped(eodCache, eodCache'),
                     refreshSkipped |-> RefreshSkipped]
     /\ UNCHANGED <<account, accountProxy, listeners, storage,
                    transactions, totalDeposits, totalWithdrawals, startingAccountSize,
                    now, priceCache, currentView, polls>>

updateJournalEntry(id, updates) ==
  LET i == FindIndex(entries, id, 1)
      entry == ObjectAssign(entries[i], updates)
  IN /\ i > 0
     /\ entries' = [entries EXCEPT ![i] = entry]
     /\ accountCache' = _invalidateAccountCache(accountCache)
     /\ OnJournalEntryChanged(entry)
     /\ saves' = saveJournal(saves)
     /\ lastCall' = [op |-> "updateJournalEntry", value |-> Null,
                     dates |-> {getTradeEntryDateString(entries[i]),
                                getTradeEntryDateString(entry)},
                     dropped |-> Dropped(eodCache, eodCache'),
                     refreshSkipped |-> RefreshSkipped]
     /\ UNCHANGED <<account, accountProxy, listeners, storage,
                    transactions, totalDeposits, totalWithdrawals, startingAccountSize,
                    now, priceCache, currentView, polls>>

deleteJournalEntry(id) ==
  LET i == FindIndex(entries, id, 1)
  IN /\ i > 0
     /\ entries' = RemoveAt(entries, i)
     /\ accountCache' = _invalidateAccountCache(accountCache)
     /\ OnJournalEntryChanged(entries[i])
     /\ saves' = saveJournal(saves)
     /\ lastCall' = [op |-> "deleteJournalEntry", value |-> Null,
                     dates |-> {getTradeEntryDateString(entries[i])},
                     dropped |-> Dropped(eodCache, eodCache'),
                     refreshSkipped |-> RefreshSkipped]
     /\ UNCHANGED <<account, accountProxy, listeners, storage,
                    transactions, totalDeposits, totalWithdrawals, startingAccountSize,
                    now, priceCache, currentView, polls>>

\* the tail shared by addCashFlowTransaction and deleteCashFlowTransaction:
\* invalidate, emit cashFlowChanged, read this.currentSize, emit accountSizeChanged
CashFlowChangedTail(tx) ==
  LET L == Ledger(entries, transactions', totalDeposits', totalWithdrawals',
                  startingAccountSize)
      size == currentSizeGetter(_invalidateAccountCache(accountCache), L)
      s1 == RefreshIfOnStats(stats, currentView, entries, priceCache)
  IN /\ accountCache' = size.cache
     /\ eodCache' = OnAccountSizeChanged_eod(
                       OnCashFlowChanged_eod(MarkStale(eodCache), transactions'))
     /\ stats' = RefreshIfOnStats(s1, currentView, entries, priceCache)
     /\ UNCHANGED <<account, accountProxy, listeners, storage, saves,
                    entries, startingAccountSize, now, statsCache, priceCache,
                    currentView, polls>>

addCashFlowTransaction(type, amount, timestamp) ==
  LET transaction == [id |-> now, type |-> type, amount |-> amount,
                      timestamp |-> timestamp]
  IN /\ transactions' = <<transaction>> \o transactions
     /\ totalDeposits' = IF type = "deposit" THEN totalDeposits + amount ELSE totalDeposits
     /\ totalWithdrawals' = IF type = "withdrawal" THEN totalWithdrawals + amount
                            ELSE totalWithdrawals
     /\ CashFlowChangedTail(transaction)
     /\ lastCall' = [op |-> "addCashFlowTransaction", value |-> Null,
                     dates |-> {getTransactionDateString(transaction)},
                     dropped |-> Dropped(eodCache, eodCache'),
                     refreshSkipped |-> RefreshSkipped]

\* deleteCashFlowTransaction(id) that leaves the totals as they were
deleteCashFlowTransaction_KeepTotals(id) ==
  LET i == FindIndex(transactions, id, 1)
      deleted == transactions[i]
  IN /\ i > 0
     /\ transactions' = RemoveAt(transactions, i)
     /\ UNCHANGED <<totalDeposits, totalWithdrawals>>
     /\ CashFlowChangedTail(deleted)
     /\ lastCall' = [op |-> "deleteCashFlowTransaction", value |-> Some(deleted),
                     dates |-> {getTransactionDateString(deleted)},
                     dropped |-> Dropped(eodCache, eodCache'),
                     refreshSkipped |-> RefreshSkipped]

\* deleteCashFlowTransaction(id) when a transaction has the id
deleteCashFlowTransaction(id) ==
  LET i == FindIndex(transactions, id, 1)
      deleted == transactions[i]
  IN /\ i > 0
     /\ transactions' = RemoveAt(transactions, i)
     /\ totalDeposits' = IF deleted.type = "deposit" THEN totalDeposits - deleted.amount
                         ELSE totalDeposits
     /\ totalWithdrawals' = IF deleted.type = "withdrawal"
                              THEN totalWithdrawals - deleted.amount
                              ELSE totalWithdrawals
     /\ CashFlowChangedTail(deleted)
     /\ lastCall' = [op |-> "deleteCashFlowTransaction", value |-> Some(deleted),
                     dates |-> {getTransactionDateString(deleted)},
                     dropped |-> Dropped(eodCache, eodCache'),
                     refreshSkipped |-> RefreshSkipped]

updateSettings(updates) ==
  /\ startingAccountSize' = updates.startingAccountSize
  /\ eodCache' = OnSettingsChanged_eod(MarkStale(eodCache))
  /\ stats' = RefreshIfOnStats(stats, currentView, entries, priceCache)
  /\ lastCall' = [op |-> "updateSettings", value |-> Null, dates |-> {},
                  refreshSkipped |-> RefreshSkipped]
  /\ UNCHANGED <<account, accountProxy, listeners, storage, saves,
                 entries, transactions, totalDeposits, totalWithdrawals, accountCache,
                 now, statsCache, priceCache, currentView, polls>>

\* a caller reads state.realizedPnL
ReadRealizedPnL ==
  LET r == realizedPnLGetter(accountCache, CurrentLedger)
  IN /\ accountCache' = r.cache
     /\ lastCall' = [op |-> "realizedPnL", value |-> Some(r.value), dates |-> {}]
     /\ UNCHANGED <<account, accountProxy, listeners, storage, saves,
                    entries, transactions, totalDeposits, totalWithdrawals,
                    startingAccountSize, now, statsCache, eodCache, priceCache,
                    currentView, stats, polls>>

\* a caller reads state.currentSize
ReadCurrentSize ==
  LET r == currentSizeGetter(accountCache, CurrentLedger)
  IN /\ accountCache' = r.cache
     /\ lastCall' = [op |-> "currentSize", value |-> Some(r.value), dates |-> {}]
     /\ UNCHANGED <<account, accountProxy, listeners, storage, saves,
                    entries, transactions, totalDeposits, totalWithdrawals,
                    startingAccountSize, now, statsCache, eodCache, priceCache,
                    currentView, stats, polls>>

StatsFrame == <<account, accountProxy, listeners, storage, saves,
                entries, transactions, totalDeposits, totalWithdrawals,
                startingAccountSize, accountCache, now, eodCache, priceCache,
                currentView, stats, polls>>

\* calculateAndCacheStats(trades), on the whole journal or on its closed trades
calculateAndCacheStats(closedOnly) ==
  LET trades == IF closedOnly THEN SelectSeq(entries, IsClosedOrTrimmed) ELSE entries
  IN /\ statsCache' = CachedStats(statsCache, trades)
     /\ lastCall' = [op |-> "calculateAndCacheStats", value |-> Null, dates |-> {}]
     /\ UNCHANGED StatsFrame

\* a caller asks the incremental calculator for one metric of the journal
ReadWinRate ==
  /\ lastCall' = [op |-> "incrementalWinRate",
                  value |-> Some(incrementalWinRate(statsCache, entries)), dates |-> {}]
  /\ UNCHANGED <<StatsFrame, statsCache>>

ReadWinsLosses ==
  /\ lastCall' = [op |-> "incrementalWinsLosses",
                  value |-> Some(incrementalWinsLosses(statsCache, entries)), dates |-> {}]
  /\ UNCHANGED <<StatsFrame, statsCache>>

ReadProfitFactor ==
  /\ lastCall' = [op |-> "incrementalProfitFactor",
                  value |-> Some(incrementalProfitFactor(statsCache, entries)),
                  dates |-> {}]
  /\ UNCHANGED <<StatsFrame, statsCache>>

EODFrame == <<account, accountProxy, listeners, storage, saves,
              entries, transactions, totalDeposits, totalWithdrawals,
              startingAccountSize, accountCache, now, statsCache, priceCache,
              currentView, stats, polls>>

\* the snapshot Stats.saveEODSnapshot(dateStr) builds.  Object.entries() of the price
\* Map yields no pair, and the journal holds no option position, so no price reaches
\* the snapshot.
EODSnapshotFor(dateStr, L) ==
  LET prices == NoPrices
      openTrades == SelectSeq(L.entries,
                      LAMBDA trade : isOpenTrade(trade) /\ isTradeOpenOnDate(trade, dateStr))
      incompleteTickers == {openTrades[i].ticker : i \in
                              {j \in DOMAIN openTrades : prices[openTrades[j].ticker] = Null}}
      balanceData == calculateCurrentBalance(L.startingAccountSize, L.entries,
                                             L.transactions, prices)
  IN [balance |-> balanceData.balance, incomplete |-> incompleteTickers # {},
      stale |-> FALSE, cashFlow |-> getCashFlowOnDate(L.transactions, dateStr)]

\* Stats.saveEODSnapshot(dateStr)
saveEODSnapshot(dateStr) ==
  /\ eodCache' = putEODSnapshot(eodCache, dateStr, EODSnapshotFor(dateStr, CurrentLedger))
  /\ lastCall' = [op |-> "saveEODSnapshot", value |-> Null, dates |-> {dateStr}]
  /\ UNCHANGED EODFrame

\* the condition under which Stats.checkAndSaveEOD() saves
shouldSaveEOD_Always(eod, today, isAfterClose, tradingDay) ==
  isAfterClose /\ tradingDay = today

shouldSaveEOD(eod, today, isAfterClose, tradingDay) ==
  isAfterClose /\ ~hasEODData(eod, tradingDay) /\ tradingDay = today

\* Stats.checkAndSaveEOD(), which runs to its end without suspending
checkAndSaveEOD(eod, L, today, isAfterClose, tradingDay) ==
  IF shouldSaveEOD(eod, today, isAfterClose, tradingDay)
    THEN putEODSnapshot(eod, tradingDay, EODSnapshotFor(tradingDay, L))
    ELSE eod

\* a caller asks StatsCalculator.getBalanceForDate(dateStr)
CallGetBalanceForDate(dateStr) ==
  /\ lastCall' = [op |-> "getBalanceForDate",
                  value |-> getBalanceForDate(eodCache, dateStr, todayStr(now),
                                              CurrentLedger, priceCache),
                  dates |-> {dateStr}, today |-> todayStr(now)]
  /\ UNCHANGED <<EODFrame, eodCache>>

\* a caller asks StatsCalculator.calculatePnL(dateFrom, dateTo); historical is what
\* the historical price source answers
CallCalculatePnL(dateFrom, dateTo, historical) ==
  /\ lastCall' = [op |-> "calculatePnL",
                  value |-> Some(calculatePnL(eodCache, todayStr(now), CurrentLedger,
                                              priceCache, historical, dateFrom, dateTo)),
                  dates |-> {IF dateTo # Null THEN dateTo[1] ELSE todayStr(now)},
                  from |-> dateFrom, today |-> todayStr(now)]
  /\ UNCHANGED <<EODFrame, eodCache>>

RefreshFrame == <<account, accountProxy, listeners, storage, saves,
                  entries, transactions, totalDeposits, totalWithdrawals,
                  startingAccountSize, accountCache, now, lastCall, statsCache>>

\* priceTracker.fetchPrices over the one active ticker: cache.set on success
fetchPrices(pc, trades, fetched) ==
  IF fetched = Null THEN pc
  ELSE [k \in DOMAIN pc |->
          IF \E i \in DOMAIN trades : isOpenTrade(trades[i]) /\ trades[i].ticker = k
            THEN fetched ELSE pc[k]]

\* Stats.refreshPrices() up to its first suspension (the price fetch)
refreshPrices(p, trades) ==
  IF Len(getOpenTrades(trades)) = 0 THEN p ELSE [p EXCEPT !.prices = @ + 1]

\* Stats.stopAutoRefresh(): intervals counts the interval timers that are active
stopAutoRefresh(s) ==
  IF s.autoRefreshInterval
    THEN [s EXCEPT !.autoRefreshInterval = FALSE, !.intervals = @ - 1]
    ELSE s

startAutoRefresh_NoStop(s, apiKey) ==
  IF ~apiKey THEN s
  ELSE [s EXCEPT !.autoRefreshInterval = TRUE, !.intervals = @ + 1]

\* Stats.startAutoRefresh(), apiKey telling whether priceTracker.apiKey is set
startAutoRefresh(s, apiKey) ==
  IF ~apiKey THEN s
  ELSE [stopAutoRefresh(s) EXCEPT !.autoRefreshInterval = TRUE, !.intervals = @ + 1]

\* Stats.init: the viewChanged handler, the API key being configured
viewChanged(to) ==
  /\ to # currentView
  /\ currentView' = to
  /\ IF to = "stats"
       THEN /\ stats' = startAutoRefresh(stats, TRUE)
            /\ polls' = [refreshPrices(polls, entries) EXCEPT !.delayed = @ + 1]
       ELSE /\ stats' = stopAutoRefresh(stats)
            /\ polls' = polls
  /\ UNCHANGED <<RefreshFrame, eodCache, priceCache>>

\* the setInterval callback of startAutoRefresh
AutoRefreshTick(isMarketOpen) ==
  /\ stats.autoRefreshInterval
  /\ polls' = IF isMarketOpen THEN refreshPrices(polls, entries) ELSE polls
  /\ UNCHANGED <<RefreshFrame, eodCache, priceCache, currentView, stats>>

\* the setTimeout callback of the viewChanged handler
DelayedRefresh ==
  /\ polls.delayed > 0
  /\ polls' = [polls EXCEPT !.delayed = @ - 1]
  /\ stats' = refresh(stats, entries, priceCache)
  /\ UNCHANGED <<RefreshFrame, eodCache, priceCache, currentView>>

\* Stats.init: the pricesUpdated handler
OnPricesUpdated ==
  /\ stats' = RefreshIfOnStats(stats, currentView, entries, priceCache)
  /\ UNCHANGED <<RefreshFrame, eodCache, priceCache, currentView, polls>>

\* refresh() resumes after fetchActivePrices and starts calculate()
RefreshFetchDone(fetched) ==
  /\ stats.refreshPc = "fetch"
  /\ priceCache' = fetchPrices(priceCache, entries, fetched)
  /\ stats' = [stats EXCEPT !.refreshPc = "calc_build"]
  /\ UNCHANGED <<RefreshFrame, eodCache, currentView, polls>>

\* the calculate() that refresh() awaits resumes after buildEquityCurve
RefreshBuildDone ==
  /\ stats.refreshPc = "calc_build"
  /\ stats' = [stats EXCEPT !.refreshPc = "calc_pnl"]
  /\ UNCHANGED <<RefreshFrame, eodCache, priceCache, currentView, polls>>

\* that calculate() resumes after calculatePnL and returns; refresh() renders and
\* awaits renderEquityCurve
RefreshPnlDone ==
  /\ stats.refreshPc = "calc_pnl"
  /\ stats' = [stats EXCEPT !.refreshPc = "curve"]
  /\ UNCHANGED <<RefreshFrame, eodCache, priceCache, currentView, polls>>

\* refresh() resumes after renderEquityCurve and runs its finally block
RefreshCurveDone ==
  /\ stats.refreshPc = "curve"
  /\ stats' = [stats EXCEPT !.refreshPc = "idle", !.isCalculating = FALSE]
  /\ UNCHANGED <<RefreshFrame, eodCache, priceCache, currentView, polls>>

RefreshThrows_NoFinally ==
  /\ stats.refreshPc \in {"calc_build", "calc_pnl", "curve"}
  /\ stats' = [stats EXCEPT !.refreshPc = "idle"]
  /\ lastCall' = [op |-> "refresh", value |-> Null, dates |-> {},
                  threwAt |-> stats.refreshPc]
  /\ UNCHANGED <<account, accountProxy, listeners, storage, saves,
                 entries, transactions, totalDeposits, totalWithdrawals,
                 startingAccountSize, accountCache, now, statsCache,
                 eodCache, priceCache, currentView, polls>>

\* calculate(), render() or renderEquityCurve() throws in refresh(): catch (log and
\* toast), then the finally block
RefreshThrows ==
  /\ stats.refreshPc \in {"calc_build", "calc_pnl", "curve"}
  /\ stats' = [stats EXCEPT !.refreshPc = "idle", !.isCalculating = FALSE]
  /\ lastCall' = [op |-> "refresh", value |-> Null, dates |-> {},
                  threwAt |-> stats.refreshPc]
  /\ UNCHANGED <<account, accountProxy, listeners, storage, saves,
                 entries, transactions, totalDeposits, totalWithdrawals,
                 startingAccountSize, accountCache, now, statsCache,
                 eodCache, priceCache, currentView, polls>>

\* a refreshPrices() resumes after refreshAllActivePrices, runs checkAndSaveEOD and
\* awaits it
PricesRefreshed(fetched, isAfterClose, tradingDay) ==
  /\ polls.prices > 0
  /\ priceCache' = fetchPrices(priceCache, entries, fetched)
  /\ eodCache' = checkAndSaveEOD(eodCache, CurrentLedger, todayStr(now), isAfterClose,
                                 tradingDay)
  /\ polls' = [polls EXCEPT !.prices = @ - 1, !.eod = @ + 1]
  /\ lastCall' = [op |-> "checkAndSaveEOD", value |-> Null, dates |-> {tradingDay},
                  isAfterClose |-> isAfterClose, today |-> todayStr(now),
                  before |-> getEODData(eodCache, tradingDay),
                  saved |-> shouldSaveEOD(eodCache, todayStr(now), isAfterClose,
                                          tradingDay),
                  overlapping |-> polls.prices > 1]
  /\ UNCHANGED <<account, accountProxy, listeners, storage, saves,
                 entries, transactions, totalDeposits, totalWithdrawals,
                 startingAccountSize, accountCache, now, statsCache, currentView,
                 stats>>

\* that refreshPrices() resumes after checkAndSaveEOD: on the stats view it calls
\* calculate() without awaiting it
EODChecked ==
  /\ polls.eod > 0
  /\ polls' = IF currentView = "stats"
                 THEN [polls EXCEPT !.eod = @ - 1, !.calcBuild = @ + 1]
                 ELSE [polls EXCEPT !.eod = @ - 1]
  /\ UNCHANGED <<RefreshFrame, eodCache, priceCache, currentView, stats>>

\* a calculate() started by refreshPrices() resumes after buildEquityCurve
DetachedBuildDone ==
  /\ polls.calcBuild > 0
  /\ polls' = [polls EXCEPT !.calcBuild = @ - 1, !.calcPnl = @ + 1]
  /\ UNCHANGED <<RefreshFrame, eodCache, priceCache, currentView, stats>>

\* it resumes after calculatePnL and stores this.stats
DetachedPnlDone ==
  /\ polls.calcPnl > 0
  /\ polls' = [polls EXCEPT !.calcPnl = @ - 1]
  /\ UNCHANGED <<RefreshFrame, eodCache, priceCache, currentView, stats>>

\* time passes: Date.now() advances (observable only once the current
\* reading has been used as an id)
Tick ==
  /\ now + 1 \in Clock
  /\ \/ \E i \in DOMAIN entries : entries[i].id = now
     \/ \E i \in DOMAIN transactions : transactions[i].id = now
     \/ statsCache.cachedAt = now
  /\ now' = now + 1
  /\ UNCHANGED <<account, accountProxy, listeners, storage, saves,
                 entries, transactions, totalDeposits, totalWithdrawals,
                 startingAccountSize, accountCache, lastCall, statsCache, eodCache,
                 priceCache, currentView, stats, polls>>

----
(* The state after construction (AppState constructor, Stats constructor,  *)
(* IncrementalStatsCalculator.init on empty storage).                      *)
IdleStats ==
  [isCalculating |-> FALSE, refreshPc |-> "idle", autoRefreshInterval |-> FALSE,
   intervals |-> 0,
   calculatorInitialized |-> TRUE]

NoPolls == [prices |-> 0, eod |-> 0, calcBuild |-> 0, calcPnl |-> 0, delayed |-> 0]

\* nothing persisted yet: every getItem resolves with null (a trade id is a reading
\* of the clock)
EmptyStorage ==
  [settings |-> Null, journal |-> Null, journalIndex |-> Null,
   trades |-> [id \in Clock |-> Null], cashFlow |-> Null, statsCache |-> Null]

\* no debounced save pending, no _saveJournalImmediate in progress
NoSaves == [timer |-> FALSE, running |-> {}]

\* state.account as the AppState constructor builds it
DefaultAccount == [riskPercent |-> 1, maxPositionPercent |-> 100]

InitControllers ==
  /\ accountCache = EmptyAccountCache
  /\ account = DefaultAccount
  /\ accountProxy = Null
  /\ listeners = <<>>
  /\ storage = EmptyStorage
  /\ saves = NoSaves
  /\ lastCall = [op |-> "init", value |-> Null, dates |-> {}]
  /\ statsCache = EmptyStatsCache
  /\ eodCache = EmptyEODCache
  /\ priceCache = [k \in Tickers |-> Null]
  /\ stats = IdleStats
  /\ polls = NoPolls

InitBase ==
  /\ transactions = <<>>
  /\ totalDeposits = 0
  /\ totalWithdrawals = 0
  /\ startingAccountSize = DefaultStartingAccountSize
  /\ InitControllers

----
(* Specification SpecAccount: the ledger operations and the cached account *)
(* getters, journal view active.                                           *)

NewTrade(status, pnl, trims, ts) ==
  [id |-> 0, status |-> status, pnl |-> pnl, trims |-> trims, timestamp |-> ts,
   exitDate |-> Null, ticker |-> "AAPL", entry |-> 10, shares |-> 1,
   assetType |-> "stock", remainingShares |-> Null]

AccountTrades == {NewTrade("open", 0, <<>>, 1), NewTrade("closed", 100, <<>>, 1)}

AccountUpdates == {[status |-> "trimmed", trims |-> <<-50>>]}

StartingSizes == {DefaultStartingAccountSize, 20000}
Amounts == {500}
Ids == Clock

InitAccount ==
  /\ InitBase
  /\ entries = <<>>
  /\ now = 1
  /\ currentView = "journal"

NextAccount ==
  \/ \E e \in AccountTrades : Len(entries) < MaxEntries /\ addJournalEntry(e)
  \/ \E id \in Ids, u \in AccountUpdates : updateJournalEntry(id, u)
  \/ \E id \in Ids : deleteJournalEntry(id)
  \/ \E ty \in {"deposit", "withdrawal"}, a \in Amounts :
        Len(transactions) < MaxTx /\ addCashFlowTransaction(ty, a, now)
  \/ \E id \in Ids : deleteCashFlowTransaction(id)
  \/ \E v \in StartingSizes : updateSettings([startingAccountSize |-> v])
  \/ ReadRealizedPnL
  \/ ReadCurrentSize
  \/ Tick

SpecAccount == InitAccount /\ [][NextAccount]_vars

----
(* Independent statement of the realized balance: counts over index sets *)
RealizedOf(t) ==
  CASE t.status = "closed" -> t.pnl
    [] t.status = "trimmed" -> SumSeq(t.trims)
    [] OTHER -> 0

RECURSIVE SumOver(_, _)
SumOver(f, S) ==
  IF S = {} THEN 0
  ELSE LET x == CHOOSE y \in S : TRUE IN f[x] + SumOver(f, S \ {x})

RealizedBalanceOfState ==
  startingAccountSize
    + SumOver([i \in DOMAIN entries |-> RealizedOf(entries[i])],
              {i \in DOMAIN entries : entries[i].status \in {"closed", "trimmed"}})
    + (totalDeposits - totalWithdrawals)

\* C1: every read of state.currentSize returns startingAccountSize + the realized
\* P&L of all closed/trimmed entries + (totalDeposits - totalWithdrawals) of the
\* current state, whatever operations and reads came before it.
C1_CurrentSizeIsRealizedBalance ==
  lastCall.op = "currentSize" => lastCall.value = Some(RealizedBalanceOfState)

----
(* Specification SpecCalc: the pure StatsCalculator functions applied to   *)
(* every trade list of a bounded shape.                                    *)
MaxCalcTrades == 3

CalcTradeShapes ==
  {NewTrade("open", 0, <<>>, 1)}
    \cup {NewTrade("closed", p, <<>>, 1) : p \in {-50, 0, 100}}
    \cup {NewTrade("trimmed", 0, h, 1) : h \in {<<100>>, <<-50>>, <<100, -100>>}}

CalcTradeLists == UNION {[1..n -> CalcTradeShapes] : n \in 0..MaxCalcTrades}

InitCalc ==
  /\ InitBase
  /\ entries \in CalcTradeLists
  /\ now = 1
  /\ currentView = "journal"

CalcFrame == <<account, accountProxy, listeners, storage, saves,
               entries, transactions, totalDeposits, totalWithdrawals,
               startingAccountSize, accountCache, now, statsCache, eodCache,
               priceCache, currentView, stats, polls>>

Returned(op, a, b) == [op |-> op, value |-> [filter |-> a, singlePass |-> b], dates |-> {}]

CallCalculateWinRate ==
  /\ lastCall' = Returned("calculateWinRate", calculateWinRate(entries),
                          calculateWinRateSinglePass(entries))
  /\ UNCHANGED CalcFrame

CallCalculateWinsLosses ==
  /\ lastCall' = Returned("calculateWinsLosses", calculateWinsLosses(entries),
                          calculateWinsLossesSinglePass(entries))
  /\ UNCHANGED CalcFrame

CallCalculateAvgWinLossRatio ==
  /\ lastCall' = Returned("calculateAvgWinLossRatio", calculateAvgWinLossRatio(entries),
                          calculateAvgWinLossRatioSinglePass(entries))
  /\ UNCHANGED CalcFrame

CallCalculateProfitFactor ==
  /\ lastCall' = Returned("calculateProfitFactor", Null, calculateProfitFactor(entries))
  /\ UNCHANGED CalcFrame

CallCalculateTradeExpectancy ==
  /\ lastCall' = Returned("calculateTradeExpectancy", calculateTradeExpectancy(entries),
                          calculateTradeExpectancySinglePass(entries))
  /\ UNCHANGED CalcFrame

NextCalc ==
  \/ CallCalculateWinRate
  \/ CallCalculateWinsLosses
  \/ CallCalculateAvgWinLossRatio
  \/ CallCalculateProfitFactor
  \/ CallCalculateTradeExpectancy

SpecCalc == InitCalc /\ [][NextCalc]_vars

(* The sets the claims speak of, as index sets of the input list *)
ClosedIdx == {i \in DOMAIN entries : entries[i].status \in {"closed", "trimmed"}}
WinIdx == {i \in ClosedIdx : RealizedOf(entries[i]) > 0}
LossIdx == {i \in ClosedIdx : RealizedOf(entries[i]) <= 0}
BreakevenIdx == {i \in ClosedIdx : RealizedOf(entries[i]) = 0}
PnLAt == [i \in DOMAIN entries |-> RealizedOf(entries[i])]

\* r is the ratio n / d (d # 0), stated by cross-multiplication
IsRatio(r, n, d) == r # Null /\ r[2] # 0 /\ r[1] * d = n * r[2]

WinRateOK(r) ==
  /\ (r = Null) <=> (ClosedIdx = {})
  /\ ClosedIdx # {} => IsRatio(r, 100 * Cardinality(WinIdx), Cardinality(ClosedIdx))

\* C7: calculateWinRate returns null exactly when the list has no closed or trimmed
\* trade, and otherwise 100 * (closed/trimmed trades with P&L > 0) / (closed/trimmed
\* trades); holds of both definitions in the source.
C7_WinRate ==
  lastCall.op = "calculateWinRate" =>
    WinRateOK(lastCall.value.filter) /\ WinRateOK(lastCall.value.singlePass)

C7_Witness ==
  /\ lastCall.op = "calculateWinRate"
  /\ ClosedIdx # {} /\ WinIdx = {}
  /\ \E i \in DOMAIN entries : entries[i].status = "open"
  /\ lastCall.value.filter = <<0, 1>>

WinsLossesOK(r) ==
  /\ r.wins = Cardinality(WinIdx)
  /\ r.losses = Cardinality(LossIdx)
  /\ r.total = Cardinality(ClosedIdx)
  /\ r.wins + r.losses = r.total

\* C8: calculateWinsLosses counts wins as closed/trimmed trades with P&L > 0 and
\* losses as those with P&L <= 0 (breakeven is a loss), and wins + losses = total.
C8_WinsLossesPartition ==
  lastCall.op = "calculateWinsLosses" =>
    WinsLossesOK(lastCall.value.filter) /\ WinsLossesOK(lastCall.value.singlePass)

C8_Witness ==
  /\ lastCall.op = "calculateWinsLosses"
  /\ BreakevenIdx # {} /\ WinIdx # {}
  /\ lastCall.value.filter.losses = Cardinality(BreakevenIdx)

\* C9: calculateProfitFactor returns sum(P&L of winners) / |sum(P&L of losers)|;
\* it is null exactly when there is no winner or the losers' P&L sums to zero (no
\* trade with P&L < 0); breakeven trades add nothing to either sum.
C9_ProfitFactor ==
  lastCall.op = "calculateProfitFactor" =>
    LET r == lastCall.value.singlePass
        sumWins == SumOver(PnLAt, WinIdx)
        sumLosses == SumOver(PnLAt, LossIdx \ BreakevenIdx)
    IN /\ (r = Null) <=> (WinIdx = {} \/ LossIdx \ BreakevenIdx = {})
       /\ r # Null => IsRatio(r, sumWins, Abs(sumLosses))

C9_Witness ==
  /\ lastCall.op = "calculateProfitFactor"
  /\ BreakevenIdx # {} /\ WinIdx # {} /\ LossIdx \ BreakevenIdx # {}
  /\ lastCall.value.singlePass = <<2, 1>>

AvgWinLossRatioOK(r) ==
  LET sumWins == SumOver(PnLAt, WinIdx)
      sumLosses == SumOver(PnLAt, LossIdx)
  IN /\ (r = Null) <=> (WinIdx = {} \/ LossIdx = {} \/ sumLosses = 0)
     /\ r # Null =>
          \* (sumWins / #wins) / |sumLosses / #losses|
          IsRatio(r, sumWins * Cardinality(LossIdx),
                  Cardinality(WinIdx) * Abs(sumLosses))

\* C10: calculateAvgWinLossRatio returns avgWin / |avgLoss| with avgLoss the mean over
\* the losing set P&L <= 0 (breakeven included), null when either set is empty or
\* avgLoss is 0, and every definition in the source gives this result.
C10_AvgWinLossRatio ==
  lastCall.op = "calculateAvgWinLossRatio" =>
    AvgWinLossRatioOK(lastCall.value.filter) /\ AvgWinLossRatioOK(lastCall.value.singlePass)

ExpectancyOK(r) ==
  /\ (r = Null) <=> (ClosedIdx = {})
  /\ ClosedIdx # {} => IsRatio(r, SumOver(PnLAt, ClosedIdx), Cardinality(ClosedIdx))

\* C11: calculateTradeExpectancy returns null when the list has no closed or trimmed
\* trade, and otherwise winFraction * avgWin + lossFraction * avgLoss, which is the
\* sum of the realized P&L of all closed/trimmed trades over their number, both when
\* breakeven trades are left out of both sets (filter-based definition) and when they
\* are put in the losing set (single-pass definition).
C11_TradeExpectancy ==
  lastCall.op = "calculateTradeExpectancy" =>
    ExpectancyOK(lastCall.value.filter) /\ ExpectancyOK(lastCall.value.singlePass)

C11_Witness ==
  /\ lastCall.op = "calculateTradeExpectancy"
  /\ BreakevenIdx # {} /\ WinIdx # {} /\ LossIdx \ BreakevenIdx # {}
  /\ lastCall.value.filter = <<50, 3>>
  /\ lastCall.value.singlePass = <<50, 3>>

----
(* Specification SpecChecksum: _calculateTradeChecksum applied to every    *)
(* pair of trade lists of a bounded shape. Identifiers are Date.now()      *)
(* values: positive integers, possibly repeated.                           *)
MaxChecksumTrades == 2

ChecksumIds == {1, 2, 12}

ChecksumTrades == {[NewTrade("closed", 100, <<>>, 1) EXCEPT !.id = i] : i \in ChecksumIds}

ChecksumLists == UNION {[1..n -> ChecksumTrades] : n \in 0..MaxChecksumTrades}

InitChecksum ==
  /\ InitBase
  /\ entries \in ChecksumLists
  /\ now = 1
  /\ currentView = "journal"

CallCalculateTradeChecksum ==
  /\ \E other \in ChecksumLists :
       lastCall' = [op |-> "_calculateTradeChecksum",
                    value |-> [first |-> _calculateTradeChecksum(entries),
                               second |-> _calculateTradeChecksum(other)],
                    dates |-> {}, other |-> other]
  /\ UNCHANGED CalcFrame

NextChecksum == CallCalculateTradeChecksum

SpecChecksum == InitChecksum /\ [][NextChecksum]_vars

CountId(trades, id) == Cardinality({i \in DOMAIN trades : trades[i].id = id})

SameIdMultiset(a, b) == \A id \in ChecksumIds : CountId(a, id) = CountId(b, id)

\* C12: for any two trade lists the checksums are equal if and only if the lists have
\* the same number of trades and the same multiset of identifiers: a permutation
\* keeps the checksum, an addition, a deletion or an identifier change alters it.
C12_ChecksumIdentifiesTradeSet ==
  lastCall.op = "_calculateTradeChecksum" =>
    ((lastCall.value.first = lastCall.value.second)
       <=> (Len(entries) = Len(lastCall.other) /\ SameIdMultiset(entries, lastCall.other)))

C12_Witness ==
  /\ lastCall.op = "_calculateTradeChecksum"
  /\ Len(entries) = 2 /\ entries # lastCall.other
  /\ SameIdMultiset(entries, lastCall.other)
  /\ MapIds(entries) = <<2, 12>>
  /\ lastCall.value.first = <<"2", ":", "1", "2", ",", "2">>
  /\ lastCall.value.second = lastCall.value.first

----
(* Specification SpecCache: calculateAndCacheStats, _isCacheValid and      *)
(* invalidateCache called with trade lists of a bounded shape.             *)
MaxCacheTrades == 2

CacheTrades ==
  {[NewTrade("open", 0, <<>>, 1) EXCEPT !.id = 1],
   [NewTrade("closed", 100, <<>>, 1) EXCEPT !.id = 1],
   [NewTrade("closed", -50, <<>>, 1) EXCEPT !.id = 2]}

\* the journal gives every trade its own id
CacheLists ==
  {l \in UNION {[1..n -> CacheTrades] : n \in 0..MaxCacheTrades} :
     \A i, j \in DOMAIN l : l[i].id = l[j].id => i = j}

InitCache ==
  /\ InitBase
  /\ entries = <<>>
  /\ now = 1
  /\ currentView = "journal"

\* the list of the last completed calculateAndCacheStats call, if no invalidateCache
\* came after it
CachedFor == IF "cachedFor" \in DOMAIN lastCall THEN lastCall.cachedFor ELSE Null

\* calculateAndCacheStats(trades): the record returned, the record handed to
\* storage.setItem by _saveCache (none on a cache hit) and the cache left behind
CallCalculateAndCacheStats ==
  /\ \E trades \in CacheLists :
       /\ statsCache' = CachedStats(statsCache, trades)
       /\ lastCall' = [op |-> "calculateAndCacheStats", value |-> Some(statsCache'),
                       dates |-> {}, arg |-> trades, cachedFor |-> Some(trades),
                       previousFor |-> CachedFor, at |-> now,
                       before |-> statsCache,
                       hit |-> _isCacheValid(statsCache, trades),
                       written |-> IF _isCacheValid(statsCache, trades)
                                     THEN Null ELSE Some(statsCache')]
  /\ UNCHANGED StatsFrame

CallIsCacheValid ==
  /\ \E trades \in CacheLists :
       lastCall' = [op |-> "_isCacheValid", value |-> _isCacheValid(statsCache, trades),
                    dates |-> {}, arg |-> trades, cachedFor |-> CachedFor]
  /\ UNCHANGED <<StatsFrame, statsCache>>

CallInvalidateCache ==
  /\ statsCache' = invalidateCache(statsCache)
  /\ lastCall' = [op |-> "invalidateCache", value |-> Null, dates |-> {},
                  cachedFor |-> Null, written |-> Some(statsCache')]
  /\ UNCHANGED StatsFrame

NextCache ==
  \/ CallCalculateAndCacheStats
  \/ CallIsCacheValid
  \/ CallInvalidateCache
  \/ Tick

SpecCache == InitCache /\ [][NextCache]_vars

\* b is a with one trade added, or a with one trade removed
AddedOrRemoved(a, b) ==
  \/ \E i \in DOMAIN b : RemoveAt(b, i) = a
  \/ \E i \in DOMAIN a : RemoveAt(a, i) = b

\* C13 as stated: after calculateAndCacheStats(T) has completed, _isCacheValid(T) is
\* true on every repeated call with the same T, and _isCacheValid(T') is false for
\* every T' that is T with a trade added or removed.
C13_ValidAfterCaching ==
  (lastCall.op = "_isCacheValid" /\ lastCall.cachedFor # Null) =>
    LET T == lastCall.cachedFor[1]
    IN /\ lastCall.arg = T => lastCall.value = TRUE
       /\ AddedOrRemoved(T, lastCall.arg) => lastCall.value = FALSE

\* C13 amended: after calculateAndCacheStats(T) has completed, _isCacheValid(T) is
\* true on every repeated call with the same T when T is not empty; when T is empty
\* the stored trade count is 0 and _isCacheValid is false for every list, T included;
\* _isCacheValid(T') is false for every T' that is T with a trade added or removed.
C13_ValidAfterCachingNonEmpty ==
  (lastCall.op = "_isCacheValid" /\ lastCall.cachedFor # Null) =>
    LET T == lastCall.cachedFor[1]
    IN /\ (lastCall.arg = T /\ T # <<>>) => lastCall.value = TRUE
       /\ T = <<>> => lastCall.value = FALSE
       /\ AddedOrRemoved(T, lastCall.arg) => lastCall.value = FALSE

C13_Witness ==
  /\ lastCall.op = "_isCacheValid" /\ lastCall.cachedFor # Null
  /\ Len(lastCall.cachedFor[1]) = 2
  /\ lastCall.arg = lastCall.cachedFor[1]
  /\ lastCall.value = TRUE
  /\ statsCache.tradeCount = 2

\* The parts of C14, over the last calculateAndCacheStats call
CacheWasValid == lastCall.before.tradeCount > 0
                   /\ lastCall.before.tradeChecksum = _calculateTradeChecksum(lastCall.arg)

ClosedIdsOf(trades) ==
  LET c == SelectSeq(trades, LAMBDA t : t.status \in {"closed", "trimmed"})
  IN [i \in 1..Len(c) |-> c[i].id]

HitReturnsStored ==
  CacheWasValid =>
    /\ lastCall.value = Some(lastCall.before)
    /\ statsCache = lastCall.before
    /\ lastCall.written = Null

MissStoresNewRecord ==
  ~CacheWasValid =>
    LET rec == lastCall.value[1]
    IN /\ rec.tradeCount = Len(lastCall.arg)
       /\ rec.tradeChecksum = _calculateTradeChecksum(lastCall.arg)
       /\ rec.closedTradeIds = ClosedIdsOf(lastCall.arg)
       /\ statsCache = rec
       /\ lastCall.written = Some(rec)

\* C14 as stated: on a valid cache calculateAndCacheStats(trades) returns the stored
\* record unchanged and writes nothing to storage; otherwise it returns a new record
\* with tradeCount, tradeChecksum and closedTradeIds of trades, which becomes the
\* stored record and is handed to storage; and calling it twice in a row with the
\* same trades yields the same record.
C14_CalculateAndCacheStats ==
  lastCall.op = "calculateAndCacheStats" =>
    /\ HitReturnsStored
    /\ MissStoresNewRecord
    /\ lastCall.previousFor = Some(lastCall.arg) => lastCall.value = Some(lastCall.before)

\* C14 amended: as stated, except that the second of two calls in a row with the
\* same trades returns the same record only when trades is not empty; for an empty
\* list every call recomputes, stores and writes a record that equals the previous
\* one in every field but lastUpdated and cachedAt.
C14_CalculateAndCacheStatsNonEmpty ==
  lastCall.op = "calculateAndCacheStats" =>
    /\ HitReturnsStored
    /\ MissStoresNewRecord
    /\ (lastCall.previousFor = Some(lastCall.arg) /\ lastCall.arg # <<>>) =>
         lastCall.value = Some(lastCall.before)
    /\ (lastCall.previousFor = Some(lastCall.arg) /\ lastCall.arg = <<>>) =>
         /\ lastCall.written = lastCall.value
         /\ lastCall.value = Some([lastCall.before EXCEPT
                                     !.lastUpdated = Some(lastCall.at),
                                     !.cachedAt = lastCall.at])

C14_Witness ==
  /\ lastCall.op = "calculateAndCacheStats"
  /\ lastCall.previousFor = Some(lastCall.arg)
  /\ Len(lastCall.arg) = 2
  /\ lastCall.value = Some(lastCall.before)
  /\ lastCall.written = Null
  /\ statsCache.cachedAt < lastCall.at
  /\ statsCache.closedTradeIds = <<1, 2>>

----
(* Specification SpecOpenOnDate: isTradeOpenOnDate and the open-on-date    *)
(* filter of saveEODSnapshot applied to one trade and every date.          *)
MaxExitDay == 2

OpenOnDateDays == 0..MaxExitDay

OpenOnDateExits ==
  {Null} \cup {DateOnlyString(d) : d \in OpenOnDateDays}
         \cup {ISOString(d * TicksPerDay + t) : d \in OpenOnDateDays, t \in 0..(TicksPerDay - 1)}

OpenOnDateTrades ==
  {[NewTrade(st, 0, <<>>, d * TicksPerDay + 1) EXCEPT !.exitDate = x] :
     st \in {"open", "trimmed", "closed"}, d \in OpenOnDateDays, x \in OpenOnDateExits}

InitOpenOnDate ==
  /\ InitBase
  /\ \E t \in OpenOnDateTrades :
       /\ entries = <<t>>
       /\ (t.exitDate # Null => t.exitDate[1] >= getTradeEntryDateString(t))
       /\ (isOpenTrade(t) => t.exitDate = Null)
  /\ now = 1
  /\ currentView = "journal"

CallIsTradeOpenOnDate ==
  /\ \E dateStr \in OpenOnDateDays :
       lastCall' = [op |-> "isTradeOpenOnDate",
                    value |-> [util |-> isTradeOpenOnDate(entries[1], dateStr),
                               snapshotFilter |-> (isOpenTrade(entries[1])
                                                     /\ isTradeOpenOnDate(entries[1], dateStr))],
                    dates |-> {dateStr}, arg |-> dateStr]
  /\ UNCHANGED CalcFrame

NextOpenOnDate == CallIsTradeOpenOnDate

SpecOpenOnDate == InitOpenOnDate /\ [][NextOpenOnDate]_vars

\* C15: isTradeOpenOnDate(trade, d) is true exactly when the entry date is <= d and
\* the trade has no exit date or exits on a calendar day after d; a trade that exits
\* on day d is not open on d, whether exitDate is a plain date or an ISO timestamp.
C15_OpenOnDate ==
  lastCall.op = "isTradeOpenOnDate" =>
    LET trade == entries[1]
        d == lastCall.arg
    IN lastCall.value.util
         <=> (/\ trade.timestamp \div TicksPerDay <= d
              /\ (trade.exitDate = Null \/ trade.exitDate[1] > d))

----
(* Specification SpecCashFlowSums: the cash-flow sums of cashFlowUtils     *)
(* applied to every transaction list of a bounded shape and every date.    *)
MaxSumTx == 2

SumDays == 0..2

SumTransactions ==
  {[id |-> 1, type |-> "deposit", amount |-> 500, timestamp |-> d * TicksPerDay + 1] :
     d \in SumDays}
    \cup {[id |-> 1, type |-> "withdrawal", amount |-> 200,
           timestamp |-> d * TicksPerDay + 1] : d \in SumDays}

SumLists == UNION {[1..n -> SumTransactions] : n \in 0..MaxSumTx}

\* a ledger whose cash flow was loaded from storage
InitCashFlowSums ==
  /\ transactions \in SumLists
  /\ totalDeposits = SumSeq([i \in DOMAIN transactions |->
                               IF transactions[i].type = "deposit"
                                 THEN transactions[i].amount ELSE 0])
  /\ totalWithdrawals = SumSeq([i \in DOMAIN transactions |->
                                  IF transactions[i].type = "withdrawal"
                                    THEN transactions[i].amount ELSE 0])
  /\ startingAccountSize = DefaultStartingAccountSize
  /\ InitControllers
  /\ entries = <<>>
  /\ now = 1
  /\ currentView = "journal"

CashFlowReturned(op, a, b, v) ==
  [op |-> op, value |-> v, dates |-> {a, b}, arg |-> transactions, from |-> a, to |-> b]

CallGetCashFlowOnDate ==
  /\ \E d \in SumDays :
       lastCall' = CashFlowReturned("getCashFlowOnDate", d, d,
                                    getCashFlowOnDate(transactions, d))
  /\ UNCHANGED CalcFrame

CallGetCashFlowUpToDate ==
  /\ \E b \in SumDays :
       lastCall' = CashFlowReturned("getCashFlowUpToDate", b, b,
                                    getCashFlowUpToDate(transactions, b))
  /\ UNCHANGED CalcFrame

CallGetCashFlowInRange ==
  /\ \E a \in SumDays, b \in SumDays :
       /\ a <= b
       /\ lastCall' = CashFlowReturned("getCashFlowInRange", a, b,
                                       getCashFlowInRange(transactions, a, b))
  /\ UNCHANGED CalcFrame

CallGetNetCashFlow ==
  /\ \E b \in SumDays :
       lastCall' = CashFlowReturned("getNetCashFlow", b, b, getNetCashFlow(transactions))
  /\ UNCHANGED CalcFrame

NextCashFlowSums ==
  \/ CallGetCashFlowOnDate
  \/ CallGetCashFlowUpToDate
  \/ CallGetCashFlowInRange
  \/ CallGetNetCashFlow

SpecCashFlowSums == InitCashFlowSums /\ [][NextCashFlowSums]_vars

TxDay(txn) == txn.timestamp \div TicksPerDay

SignedAmounts(txs) ==
  [i \in DOMAIN txs |-> IF txs[i].type = "deposit" THEN txs[i].amount
                        ELSE IF txs[i].type = "withdrawal" THEN -txs[i].amount ELSE 0]

\* the sum of getCashFlowOnDate(txs, d) over the days d of S
SumOfDays(txs, S) == SumOver([d \in SumDays |-> getCashFlowOnDate(txs, d)], S)

\* C16: getCashFlowOnDate is the signed sum of the transactions dated exactly d;
\* getCashFlowUpToDate(t, b) is the sum of getCashFlowOnDate(t, d) over d <= b;
\* getCashFlowInRange(t, a, b) is that sum over a <= d <= b; and getNetCashFlow(t)
\* equals getCashFlowUpToDate(t, b) whenever no transaction is dated after b.
C16_CashFlowSums ==
  LET txs == lastCall.arg
      a == lastCall.from
      b == lastCall.to
  IN /\ lastCall.op = "getCashFlowOnDate" =>
          lastCall.value = SumOver(SignedAmounts(txs),
                                   {i \in DOMAIN txs : TxDay(txs[i]) = a})
     /\ lastCall.op = "getCashFlowUpToDate" =>
          lastCall.value = SumOfDays(txs, {d \in SumDays : d <= b})
     /\ lastCall.op = "getCashFlowInRange" =>
          lastCall.value = SumOfDays(txs, {d \in SumDays : a <= d /\ d <= b})
     /\ (lastCall.op = "getNetCashFlow" /\ \A i \in DOMAIN txs : TxDay(txs[i]) <= b) =>
          lastCall.value = getCashFlowUpToDate(txs, b)

C16_Witness ==
  /\ lastCall.op = "getCashFlowUpToDate"
  /\ Len(lastCall.arg) = 2 /\ lastCall.to = 1
  /\ \E i \in DOMAIN lastCall.arg :
       lastCall.arg[i].type = "withdrawal" /\ TxDay(lastCall.arg[i]) = 2
  /\ \E i \in DOMAIN lastCall.arg :
       lastCall.arg[i].type = "deposit" /\ TxDay(lastCall.arg[i]) = 1
  /\ lastCall.value = 500
  /\ getNetCashFlow(lastCall.arg) = 300

----
(* Specification SpecUnrealized: priceTracker's unrealized P&L of journals *)
(* of open, trimmed and closed stock and options positions.                *)
MaxUnrealizedTrades == 2

UnrealizedTrades ==
  {[NewTrade("open", 0, <<>>, 1) EXCEPT !.assetType = a, !.shares = 2] :
     a \in {"stock", "options"}}
    \cup {[NewTrade("trimmed", 0, <<100>>, 1) EXCEPT !.assetType = a, !.shares = 2,
                                                   !.remainingShares = Some(r)] :
            a \in {"stock", "options"}, r \in {0, 1}}
    \cup {NewTrade("closed", 100, <<>>, 1)}

UnrealizedPrices == {Null, Some(12)}

InitUnrealized ==
  /\ InitBase
  /\ entries \in UNION {[1..n -> UnrealizedTrades] : n \in 0..MaxUnrealizedTrades}
  /\ now = 1
  /\ currentView = "journal"

\* a price fetch over the active tickers completes
PricesFetched ==
  /\ \E f \in UnrealizedPrices : priceCache' = fetchPrices(priceCache, entries, f)
  /\ lastCall' = [op |-> "fetchPrices", value |-> Null, dates |-> {}]
  /\ UNCHANGED <<account, accountProxy, listeners, storage, saves,
                 entries, transactions, totalDeposits, totalWithdrawals,
                 startingAccountSize, accountCache, now, statsCache, eodCache,
                 currentView, stats, polls>>

CallCalculateUnrealizedPnL ==
  /\ \E i \in DOMAIN entries :
       lastCall' = [op |-> "calculateUnrealizedPnL",
                    value |-> calculateUnrealizedPnL(priceCache, entries[i]),
                    dates |-> {}, arg |-> entries[i]]
  /\ UNCHANGED CalcFrame

\* calculateTotalUnrealizedPnL() reads state.account.currentSize through the getter
CallCalculateTotalUnrealizedPnL ==
  LET size == currentSizeGetter(accountCache, CurrentLedger)
  IN /\ lastCall' = [op |-> "calculateTotalUnrealizedPnL",
                      value |-> Some(calculateTotalUnrealizedPnL(priceCache, entries,
                                                                 size.value)),
                      dates |-> {}]
     /\ accountCache' = size.cache
     /\ UNCHANGED <<account, accountProxy, listeners, storage, saves,
                    entries, transactions, totalDeposits, totalWithdrawals,
                    startingAccountSize, now, statsCache, eodCache, priceCache,
                    currentView, stats, polls>>

NextUnrealized ==
  \/ PricesFetched
  \/ CallCalculateUnrealizedPnL
  \/ CallCalculateTotalUnrealizedPnL

SpecUnrealized == InitUnrealized /\ [][NextUnrealized]_vars

\* (currentPrice - entry) * remainingShares * multiplier of one position
ExpectedUnrealized(trade, price) ==
  (price - trade.entry)
    * (IF trade.remainingShares # Null THEN trade.remainingShares[1] ELSE trade.shares)
    * (IF trade.assetType = "options" THEN 100 ELSE 1)

\* C17: the unrealized P&L computed for an open or trimmed position is
\* (currentPrice - entry) * remainingShares * multiplier, the multiplier being 100 for
\* options and 1 otherwise; a trimmed trade with remainingShares 0 contributes 0; the
\* total is the sum over the open and trimmed positions.
C17_UnrealizedPnL ==
  /\ (lastCall.op = "calculateUnrealizedPnL" /\ lastCall.value # Null
        /\ lastCall.arg.status \in {"open", "trimmed"}) =>
       lastCall.value[1].unrealizedPnL
         = ExpectedUnrealized(lastCall.arg, priceCache[lastCall.arg.ticker][1])
  /\ (lastCall.op = "calculateTotalUnrealizedPnL" /\ priceCache["AAPL"] # Null) =>
       lastCall.value[1].totalPnL
         = SumOver([i \in DOMAIN entries |->
                      ExpectedUnrealized(entries[i], priceCache["AAPL"][1])],
                   {i \in DOMAIN entries : entries[i].status \in {"open", "trimmed"}})

----
(* PnLCalendar (features/stats/PnLCalendar.js).  A calendar date is a day  *)
(* number; day 0 is a Sunday, so getDay() is the day number modulo 7.  A   *)
(* month is the pair of its first and last day.                            *)
getDay(date) == date % 7

RECURSIVE SkipWeekendBack(_)
\* the while loop of _getPreviousBusinessDay
SkipWeekendBack(prevDate) ==
  IF getDay(prevDate) = 0 \/ getDay(prevDate) = 6
    THEN SkipWeekendBack(prevDate - 1) ELSE prevDate

_getPreviousBusinessDay(date) == SkipWeekendBack(date - 1)

\* _getDaysInMonth(): leading days back to Sunday, the month, trailing days up to
\* Saturday
_getDaysInMonth(month) ==
  LET start == month.first - getDay(month.first)
      end == month.last + (6 - getDay(month.last))
  IN [i \in 1..(end - start + 1) |->
        LET date == start + i - 1
        IN [date |-> date,
            isCurrentMonth |-> (month.first <= date /\ date <= month.last),
            isWeekend |-> (getDay(date) = 0 \/ getDay(date) = 6)]]

\* one pass of the loop of calculateMonthData: the entry stored for the day, if any
DayEntry(eod, startingSize, date) ==
  LET prevDateStr == _getPreviousBusinessDay(date)
      eodData == getEODData(eod, date)
      prevEodData == getEODData(eod, prevDateStr)
      balance == eodData[1].balance
      cashFlow == eodData[1].cashFlow
      prevBalance == IF prevEodData # Null /\ ~prevEodData[1].incomplete
                       THEN prevEodData[1].balance ELSE startingSize
  IN IF eodData = Null \/ eodData[1].incomplete THEN Null
     ELSE Some([pnl |-> balance - prevBalance - cashFlow, balance |-> balance,
                cashFlow |-> cashFlow])

\* calculateMonthData(): monthData, a Map from the dates stored to their entries
calculateMonthData(eod, startingSize, days) ==
  LET stored == {i \in DOMAIN days : /\ days[i].isCurrentMonth
                                      /\ DayEntry(eod, startingSize, days[i].date) # Null}
  IN [date \in {days[i].date : i \in stored} |-> DayEntry(eod, startingSize, date)[1]]

RECURSIVE WeeklyLoop(_, _, _, _, _)
\* the for loop of _calculateWeeklyPnL, i = 1..5 (sequences are 1-based)
WeeklyLoop(monthData, saturdayIndex, days, i, acc) ==
  IF i > 5 THEN acc
  ELSE LET dayIndex == saturdayIndex - i
       IN IF dayIndex < 1 THEN WeeklyLoop(monthData, saturdayIndex, days, i + 1, acc)
          ELSE IF days[dayIndex].date \in DOMAIN monthData
            THEN WeeklyLoop(monthData, saturdayIndex, days, i + 1,
                   [weeklyTotal |-> acc.weeklyTotal + monthData[days[dayIndex].date].pnl,
                    hasData |-> TRUE])
            ELSE WeeklyLoop(monthData, saturdayIndex, days, i + 1, acc)

_calculateWeeklyPnL(monthData, saturdayIndex, days) ==
  LET acc == WeeklyLoop(monthData, saturdayIndex, days, 1,
                        [weeklyTotal |-> 0, hasData |-> FALSE])
  IN IF acc.hasData THEN Some(acc.weeklyTotal) ELSE Null

\* _buildDayCells(): the P&L value of every cell, the weekly total on Saturdays
_buildDayCells(monthData, days) ==
  [index \in DOMAIN days |->
     IF getDay(days[index].date) = 6 THEN _calculateWeeklyPnL(monthData, index, days)
     ELSE IF days[index].date \in DOMAIN monthData
       THEN Some(monthData[days[index].date].pnl) ELSE Null]

\* render(): calculateMonthData, then _buildCalendarGrid
render(month) ==
  LET days == _getDaysInMonth(month)
      monthData == calculateMonthData(eodCache, startingAccountSize, days)
  IN /\ lastCall' = [op |-> "render", value |-> Null, dates |-> {}, month |-> month,
                      days |-> days, monthData |-> monthData,
                      cells |-> _buildDayCells(monthData, days)]
     /\ UNCHANGED CalcFrame

----
(* Specification SpecCalendar: the calendar rendered over EOD caches as    *)
(* loaded from storage.  Day 3 is Wednesday 1 February, day 30 Tuesday 28   *)
(* February, day 61 Friday 31 March.                                       *)
MaxSnapshots == 2

CalendarMonths == {[first |-> 3, last |-> 30], [first |-> 31, last |-> 61]}

CalendarDays == 0..62

\* the weekdays that may hold a snapshot: the first week shown for February and
\* the week shared by February and March
SnapshotDays == {1, 2, 3, 4, 5, 27, 28, 29, 30, 31}

SnapshotValues ==
  [balance : {10000, 10600}, incomplete : {FALSE}, stale : {FALSE}, cashFlow : {0, 500}]
    \cup {[balance |-> 0, incomplete |-> TRUE, stale |-> FALSE, cashFlow |-> 0]}

CalendarCaches(maxSnapshots) ==
  UNION {{[d \in CalendarDays |-> IF d \in DOMAIN f THEN Some(f[d]) ELSE Null] :
            f \in [ds -> SnapshotValues]} :
         ds \in {x \in SUBSET SnapshotDays : Cardinality(x) <= maxSnapshots}}

InitCalendar ==
  /\ entries = <<>>
  /\ transactions = <<>>
  /\ totalDeposits = 0
  /\ totalWithdrawals = 0
  /\ startingAccountSize = DefaultStartingAccountSize
  /\ accountCache = EmptyAccountCache
  /\ account = DefaultAccount
  /\ accountProxy = Null
  /\ listeners = <<>>
  /\ storage = EmptyStorage
  /\ saves = NoSaves
  /\ lastCall = [op |-> "init", value |-> Null, dates |-> {}]
  /\ statsCache = EmptyStatsCache
  /\ eodCache \in CalendarCaches(MaxSnapshots)
  /\ priceCache = [k \in Tickers |-> Null]
  /\ stats = IdleStats
  /\ polls = NoPolls
  /\ now = 1
  /\ currentView = "stats"

NextCalendar == \E month \in CalendarMonths : render(month)

SpecCalendar == InitCalendar /\ [][NextCalendar]_vars

TrustedSnapshot(dateStr) ==
  getEODData(eodCache, dateStr) # Null /\ ~getEODData(eodCache, dateStr)[1].incomplete

\* C18: the daily P&L of a date of the month shown is balance(date) -
\* balance(previous business day) - cashFlow(date), and the date has no entry
\* when either of the two snapshots is missing or flagged incomplete
C18_DailyPnL ==
  lastCall.op = "render" =>
    \A date \in lastCall.month.first .. lastCall.month.last :
      LET prev == _getPreviousBusinessDay(date)
      IN IF TrustedSnapshot(date) /\ TrustedSnapshot(prev)
           THEN /\ date \in DOMAIN lastCall.monthData
                /\ lastCall.monthData[date].pnl =
                     eodCache[date][1].balance - eodCache[prev][1].balance
                       - eodCache[date][1].cashFlow
           ELSE date \notin DOMAIN lastCall.monthData

\* the Monday-Friday dates before the Saturday cell at index that have daily P&L
WeekDatesWithData(index) ==
  {date \in {lastCall.days[index].date - i : i \in 1..5} :
     DayEntry(eodCache, startingAccountSize, date) # Null}

RECURSIVE SumDailyPnL(_)
SumDailyPnL(dates) ==
  IF dates = {} THEN 0
  ELSE LET date == CHOOSE x \in dates : TRUE
       IN DayEntry(eodCache, startingAccountSize, date)[1].pnl
            + SumDailyPnL(dates \ {date})

\* C19: every Saturday cell shows the sum of the daily P&L of those of the five
\* preceding Monday-Friday dates that have data, whichever month they are in, and
\* null only when none of the five has data
C19_WeeklyPnL ==
  lastCall.op = "render" =>
    \A index \in DOMAIN lastCall.days :
      getDay(lastCall.days[index].date) = 6 =>
        lastCall.cells[index] =
          IF WeekDatesWithData(index) = {} THEN Null
          ELSE Some(SumDailyPnL(WeekDatesWithData(index)))

----
(* Specification SpecStats: journal mutations delivered to the Stats       *)
(* handlers, interleaved with calculateAndCacheStats and metric reads.     *)
MaxStatsEntries == 2

StatsTrades ==
  {NewTrade("open", 0, <<>>, 1), NewTrade("closed", 100, <<>>, 1),
   NewTrade("closed", -50, <<>>, 1)}

StatsUpdates == {[status |-> "closed", pnl |-> -50], [status |-> "closed", pnl |-> 100]}

InitStats ==
  /\ InitBase
  /\ entries = <<>>
  /\ now = 1
  /\ currentView = "journal"

NextStats ==
  \/ \E e \in StatsTrades : Len(entries) < MaxStatsEntries /\ addJournalEntry(e)
  \/ \E id \in Ids, u \in StatsUpdates : updateJournalEntry(id, u)
  \/ \E id \in Ids : deleteJournalEntry(id)
  \/ \E closedOnly \in BOOLEAN : calculateAndCacheStats(closedOnly)
  \/ ReadWinRate
  \/ ReadWinsLosses
  \/ ReadProfitFactor
  \/ Tick

SpecStats == InitStats /\ [][NextStats]_vars

\* C2: whatever journal mutations (each delivered to the Stats handlers) and
\* calculateAndCacheStats calls came before, every per-metric accessor of the
\* incremental calculator called on the current journal returns what the uncached
\* StatsCalculator method returns on it: no cached metric survives a mutation.
C2_AccessorsMatchUncached ==
  /\ lastCall.op = "incrementalWinRate" =>
       lastCall.value = Some(calculateWinRateSinglePass(entries))
  /\ lastCall.op = "incrementalWinsLosses" =>
       lastCall.value = Some(calculateWinsLossesSinglePass(entries))
  /\ lastCall.op = "incrementalProfitFactor" =>
       lastCall.value = Some(calculateProfitFactor(entries))

\* a metric served from a valid cache of a journal holding a winner and a loser
C2_Witness ==
  /\ lastCall.op = "incrementalProfitFactor"
  /\ _isCacheValid(statsCache, entries)
  /\ lastCall.value = Some(<<2, 1>>)

----
(* Specifications SpecCashFlowEOD and SpecJournalEOD: ledger changes with  *)
(* user-chosen dates and the EOD snapshots they invalidate.                *)
MaxEODEntries == 1
MaxEODTx == 2

EODTimestamps == {d * TicksPerDay + 1 : d \in Days}

EODTrades ==
  {[NewTrade("closed", 100, <<>>, ts) EXCEPT !.exitDate = Some(formatDate(ts))] :
     ts \in EODTimestamps}

EODUpdates == {[timestamp |-> ts] : ts \in EODTimestamps}

InitEOD ==
  /\ InitBase
  /\ entries = <<>>
  /\ now = 1
  /\ currentView = "journal"

NextCashFlowEOD ==
  \/ \E a \in Amounts, ts \in EODTimestamps :
        Len(transactions) < MaxEODTx /\ addCashFlowTransaction("deposit", a, ts)
  \/ \E id \in Ids : deleteCashFlowTransaction(id)
  \/ \E d \in Days : saveEODSnapshot(d)
  \/ Tick

SpecCashFlowEOD == InitEOD /\ [][NextCashFlowEOD]_vars

NextJournalEOD ==
  \/ \E e \in EODTrades : Len(entries) < MaxEODEntries /\ addJournalEntry(e)
  \/ \E id \in Ids, u \in EODUpdates : updateJournalEntry(id, u)
  \/ \E id \in Ids : deleteJournalEntry(id)
  \/ \E d \in Days : saveEODSnapshot(d)
  \/ Tick

SpecJournalEOD == InitEOD /\ [][NextJournalEOD]_vars

----
(* Specification SpecBalance: EOD snapshots of a small journal and the     *)
(* balance lookups that read them.                                         *)
MaxBalanceEntries == 1

BalanceTrades ==
  {NewTrade("open", 0, <<>>, ts) : ts \in {1, TicksPerDay + 1}}
    \cup {[NewTrade("closed", 100, <<>>, TicksPerDay + 1)
             EXCEPT !.exitDate = Some(formatDate(TicksPerDay + 1))]}

BalanceUpdates == {[timestamp |-> 2 * TicksPerDay + 1]}

HistoricalPrices == {NoPrices, [k \in Tickers |-> Some(12)]}

PnLFrom == {Null} \cup {Some(d) : d \in Days \ {0}}
PnLTo == {Null} \cup {Some(d) : d \in Days}

NextBalance ==
  \/ \E e \in BalanceTrades : Len(entries) < MaxBalanceEntries /\ addJournalEntry(e)
  \/ \E id \in Ids, u \in BalanceUpdates : updateJournalEntry(id, u)
  \/ \E id \in Ids : deleteJournalEntry(id)
  \/ \E d \in Days : saveEODSnapshot(d)
  \/ \E d \in Days : CallGetBalanceForDate(d)
  \/ \E f \in PnLFrom, t \in PnLTo, h \in HistoricalPrices : CallCalculatePnL(f, t, h)
  \/ Tick

SpecBalance == InitEOD /\ [][NextBalance]_vars

IncompleteOn(d) == d \in Days /\ eodCache[d] # Null /\ eodCache[d][1].incomplete

\* C3: for a historical date whose EOD snapshot is flagged incomplete,
\* getBalanceForDate never returns the snapshot's balance (it returns null), and
\* calculatePnL never takes a balance of that date from the snapshot: whenever it
\* looks a date up (the journal is not empty) the balance comes from
\* _calculateBalanceAtDate; on an empty journal it looks no date up and returns
\* startingAccountSize.
C3_IncompleteNeverTrusted ==
  /\ lastCall.op = "getBalanceForDate" =>
       \A d \in lastCall.dates :
          d # lastCall.today /\ IncompleteOn(d) => lastCall.value = Null
  /\ lastCall.op = "calculatePnL" =>
       /\ \A d \in lastCall.dates :
            d # lastCall.today /\ IncompleteOn(d) =>
              /\ lastCall.value[1].endSource # "getBalanceForDate"
              /\ Len(entries) > 0 =>
                   lastCall.value[1].endSource = "_calculateBalanceAtDate"
              /\ Len(entries) = 0 =>
                   lastCall.value[1].endingBalance = startingAccountSize
       /\ lastCall.from # Null /\ IncompleteOn(lastCall.from[1] - 1) =>
            lastCall.value[1].startSource # "getBalanceOnDate"

\* calculatePnL recomputed the end balance of a historical day with an incomplete
\* snapshot whose stored balance differs from the recomputed one
C3_Witness ==
  /\ lastCall.op = "calculatePnL"
  /\ \E d \in lastCall.dates :
        /\ d # lastCall.today /\ IncompleteOn(d)
        /\ lastCall.value[1].endSource = "_calculateBalanceAtDate"
        /\ lastCall.value[1].endingBalance # eodCache[d][1].balance

StaleFrom(D) == {d \in Days : d >= D /\ eodCache[d] # Null /\ eodCache[d][1].stale}

\* C4: after addCashFlowTransaction or deleteCashFlowTransaction of a transaction
\* dated D, once the cashFlowChanged and accountSizeChanged handlers have run, the
\* EOD cache holds no snapshot dated >= D that was saved before the change.
C4_CashFlowInvalidatesFromDate ==
  lastCall.op \in {"addCashFlowTransaction", "deleteCashFlowTransaction"} =>
    \A D \in lastCall.dates : StaleFrom(D) = {}

\* the earliest transaction was deleted, a later one remains, and a snapshot dated
\* between the two was dropped
C4_Witness ==
  /\ lastCall.op = "deleteCashFlowTransaction"
  /\ Len(transactions) > 0
  /\ \E D \in lastCall.dates, d \in lastCall.dropped :
        D <= d /\ d < formatDate(MinTimestamp(transactions))

\* C5: after an add, update or delete of one journal entry, once the journal handler
\* has run, the EOD cache holds no snapshot saved before the change and dated >= the
\* trade's entry date; for an update that moves the timestamp, both the old and the
\* new entry date count.
C5_JournalInvalidatesFromEntryDate ==
  lastCall.op \in {"addJournalEntry", "updateJournalEntry", "deleteJournalEntry"} =>
    \A D \in lastCall.dates : StaleFrom(D) = {}

----
(* Specification SpecRefresh: the stats view, its timers and its           *)
(* asynchronous refresh()/refreshPrices()/calculate() executions.          *)
MaxRefreshEntries == 1
MaxInFlight == 2

RefreshTrades == {NewTrade("open", 0, <<>>, 1)}

FetchedPrices == {Null, Some(12)}

InFlight == polls.prices + polls.eod + polls.calcBuild + polls.calcPnl + polls.delayed

NextRefresh ==
  \/ \E e \in RefreshTrades : Len(entries) < MaxRefreshEntries /\ addJournalEntry(e)
  \/ \E id \in Ids : deleteJournalEntry(id)
  \/ \E to \in {"journal", "stats"} : InFlight < MaxInFlight /\ viewChanged(to)
  \/ \E open \in BOOLEAN : InFlight < MaxInFlight /\ AutoRefreshTick(open)
  \/ DelayedRefresh
  \/ OnPricesUpdated
  \/ \E f \in FetchedPrices : RefreshFetchDone(f)
  \/ RefreshBuildDone
  \/ RefreshPnlDone
  \/ RefreshCurveDone
  \/ RefreshThrows
  \/ \E f \in FetchedPrices, c \in BOOLEAN, d \in Days : PricesRefreshed(f, c, d)
  \/ EODChecked
  \/ DetachedBuildDone
  \/ DetachedPnlDone

SpecRefresh == InitEOD /\ [][NextRefresh]_vars

----
(* Specification SpecEODPolls: the polls of the stats view over a journal   *)
(* holding one open position, while time passes.                           *)
MaxPollsInFlight == 2

PollEntries == {<<[NewTrade("open", 0, <<>>, 1) EXCEPT !.id = 1]>>}

InitEODPolls ==
  /\ InitBase
  /\ entries \in PollEntries
  /\ now = 1
  /\ currentView = "journal"

NextEODPolls ==
  \/ \E to \in {"journal", "stats"} : InFlight < MaxPollsInFlight /\ viewChanged(to)
  \/ \E open \in BOOLEAN : InFlight < MaxPollsInFlight /\ AutoRefreshTick(open)
  \/ DelayedRefresh
  \/ OnPricesUpdated
  \/ \E f \in FetchedPrices : RefreshFetchDone(f)
  \/ RefreshBuildDone
  \/ RefreshPnlDone
  \/ RefreshCurveDone
  \/ RefreshThrows
  \/ \E f \in FetchedPrices, c \in BOOLEAN, d \in Days : PricesRefreshed(f, c, d)
  \/ EODChecked
  \/ DetachedBuildDone
  \/ DetachedPnlDone
  \/ Tick

SpecEODPolls == InitEODPolls /\ [][NextEODPolls]_vars

CalculatesInProgress ==
  (IF stats.refreshPc \in {"calc_build", "calc_pnl"} THEN 1 ELSE 0)
    + polls.calcBuild + polls.calcPnl

\* C6: at no point are two executions of Stats.calculate() in progress: while the
\* one started by refresh() is suspended at an await, no second refresh(), timer
\* callback or refreshPrices() starts another.
C6_SingleCalculate == CalculatesInProgress <= 1

----
(* Stats.renderEquityCurve (the stats view of unnamed/part_002): the       *)
(* timeline of realized balance built from trade exits, trims and cash     *)
(* flow.  A date string is a day number; split('T')[0] of a stored date    *)
(* is its first component.                                                 *)
SplitT(str) == str[1]

\* the events pushed for one trade
TradeEvents(trade) ==
  IF trade.status = "closed" /\ trade.exitDate # Null
    THEN <<[date |-> SplitT(trade.exitDate[1]), type |-> "trade_close",
            pnl |-> trade.pnl, cashflow |-> 0]>>
  ELSE IF trade.status = "trimmed" /\ trade.trimHistory # Null
    THEN [i \in DOMAIN trade.trimHistory[1] |->
            [date |-> SplitT(trade.trimHistory[1][i].date), type |-> "trim",
             pnl |-> trade.trimHistory[1][i].pnl, cashflow |-> 0]]
  ELSE <<>>

RECURSIVE TradeEventsOf(_)
TradeEventsOf(trades) ==
  IF trades = <<>> THEN <<>>
  ELSE TradeEvents(Head(trades)) \o TradeEventsOf(Tail(trades))

CashFlowEvents(txs) ==
  [i \in DOMAIN txs |->
     [date |-> formatDate(txs[i].timestamp), type |-> "cashflow", pnl |-> 0,
      cashflow |-> IF txs[i].type = "deposit" THEN txs[i].amount ELSE -txs[i].amount]]

\* events, before the sort by date
CurveEvents(trades, txs) == TradeEventsOf(trades) \o CashFlowEvents(txs)

RECURSIVE SumField(_, _, _)
SumField(events, date, field) ==
  IF events = <<>> THEN 0
  ELSE (IF Head(events).date = date THEN Head(events)[field] ELSE 0)
         + SumField(Tail(events), date, field)

eventsByDate_NoCashFlow(events) ==
  [date \in {events[i].date : i \in DOMAIN events} |->
     [pnl |-> SumField(events, date, "pnl"), cashflow |-> 0]]

\* eventsByDate: the P&L and the cash flow of every date with events
eventsByDate(events) ==
  [date \in {events[i].date : i \in DOMAIN events} |->
     [pnl |-> SumField(events, date, "pnl"),
      cashflow |-> SumField(events, date, "cashflow")]]

RECURSIVE SortDates(_)
\* Object.keys(eventsByDate).sort()
SortDates(dates) ==
  IF dates = {} THEN <<>>
  ELSE LET first == CHOOSE d \in dates : \A e \in dates : d <= e
       IN <<first>> \o SortDates(dates \ {first})

CurvePoint(date, balance, dayPnL, cashFlow) ==
  [date |-> date, balance |-> balance, realizedBalance |-> balance,
   unrealizedPnL |-> 0, dayPnL |-> dayPnL, cashFlow |-> cashFlow]

RECURSIVE EventPoints(_, _, _)
\* the forEach over the sorted dates: currentBalance accumulates
EventPoints(byDate, dates, currentBalance) ==
  IF dates = <<>> THEN <<>>
  ELSE LET event == byDate[Head(dates)]
           balance == currentBalance + event.pnl + event.cashflow
       IN <<CurvePoint(Head(dates), balance, event.pnl, event.cashflow)>>
            \o EventPoints(byDate, Tail(dates), balance)

\* curveData before the display filter
buildCurveData(trades, txs, startingBalance, today) ==
  LET events == CurveEvents(trades, txs)
      byDate == eventsByDate(events)
      dates == SortDates(DOMAIN byDate)
      start == IF Len(events) > 0
                 THEN <<CurvePoint(dates[1], startingBalance, 0, 0)>> ELSE <<>>
      curve == start \o EventPoints(byDate, dates, startingBalance)
  IN IF Len(curve) > 0
       THEN IF curve[Len(curve)].date < today
              THEN curve \o <<CurvePoint(today, curve[Len(curve)].balance, 0, 0)>>
              ELSE curve
       ELSE <<CurvePoint(today, startingBalance, 0, 0)>>

\* the display filter of renderEquityCurve
filterCurveData(curveData, dateFrom, dateTo) ==
  IF dateFrom # Null \/ dateTo # Null
    THEN SelectSeq(curveData, LAMBDA point :
           /\ (dateFrom # Null => point.date >= dateFrom[1])
           /\ (dateTo # Null => point.date <= dateTo[1]))
    ELSE curveData

\* Stats.renderEquityCurve() with the active date filter: the data set on the chart
renderEquityCurve(dateFrom, dateTo) ==
  /\ lastCall' = [op |-> "renderEquityCurve",
                  value |-> filterCurveData(
                              buildCurveData(entries, transactions, startingAccountSize,
                                             todayStr(now)),
                              dateFrom, dateTo),
                  dates |-> {}, from |-> dateFrom, to |-> dateTo,
                  today |-> todayStr(now)]
  /\ UNCHANGED CalcFrame

----
(* Specification SpecEquityCurve: the chart data of ledgers loaded from    *)
(* storage.  Days 1, 3 and 5 are the dates of the ledger events; today is   *)
(* day 5 or day 6.                                                         *)
MaxCurveTrades == 2
MaxCurveTx == 1

CurveTrade(status, pnl, entryDay, exitDate, trimHistory) ==
  [id |-> 1, status |-> status, pnl |-> pnl, trims |-> <<>>,
   timestamp |-> entryDay * TicksPerDay, exitDate |-> exitDate, ticker |-> "AAPL",
   entry |-> 10, shares |-> 100, assetType |-> "stock", remainingShares |-> Null,
   trimHistory |-> trimHistory]

CurveTrades ==
  {CurveTrade("closed", 200, 1, Some(ISOString(5 * TicksPerDay + 1)), Null),
   CurveTrade("closed", -50, 1, Some(ISOString(3 * TicksPerDay)), Null),
   CurveTrade("trimmed", 0, 1, Null,
              Some(<<[date |-> ISOString(3 * TicksPerDay), pnl |-> 100]>>)),
   CurveTrade("open", 0, 3, Null, Null)}

CurveTransactions ==
  {[id |-> 2, type |-> "deposit", amount |-> 500, timestamp |-> 3 * TicksPerDay],
   [id |-> 2, type |-> "deposit", amount |-> 500, timestamp |-> 1 * TicksPerDay],
   [id |-> 2, type |-> "withdrawal", amount |-> 200, timestamp |-> 5 * TicksPerDay]}

CurveFilters == {Null, Some(3), Some(5)}

InitEquityCurve ==
  /\ entries \in UNION {[1..n -> CurveTrades] : n \in 0..MaxCurveTrades}
  /\ transactions \in UNION {[1..n -> CurveTransactions] : n \in 0..MaxCurveTx}
  /\ totalDeposits = SumSeq([i \in DOMAIN transactions |->
                               IF transactions[i].type = "deposit"
                                 THEN transactions[i].amount ELSE 0])
  /\ totalWithdrawals = SumSeq([i \in DOMAIN transactions |->
                                  IF transactions[i].type = "withdrawal"
                                    THEN transactions[i].amount ELSE 0])
  /\ startingAccountSize = DefaultStartingAccountSize
  /\ InitControllers
  /\ now \in {5 * TicksPerDay, 6 * TicksPerDay}
  /\ currentView = "stats"

NextEquityCurve ==
  \E dateFrom \in CurveFilters, dateTo \in CurveFilters : renderEquityCurve(dateFrom, dateTo)

SpecEquityCurve == InitEquityCurve /\ [][NextEquityCurve]_vars

\* C21: the point sequence handed to the chart is strictly increasing by date
C21_StrictlyIncreasingDates ==
  lastCall.op = "renderEquityCurve" =>
    \A i, j \in DOMAIN lastCall.value :
      i < j => lastCall.value[i].date < lastCall.value[j].date

\* realized P&L of the closed trades and the trims exited on or before date
RECURSIVE RealizedUpTo(_, _)
RealizedUpTo(trades, date) ==
  IF trades = <<>> THEN 0
  ELSE LET t == Head(trades)
           own == IF t.status = "closed" /\ t.exitDate # Null
                    THEN (IF t.exitDate[1][1] <= date THEN t.pnl ELSE 0)
                  ELSE IF t.status = "trimmed" /\ t.trimHistory # Null
                    THEN SumSeq([i \in DOMAIN t.trimHistory[1] |->
                                   IF t.trimHistory[1][i].date[1] <= date
                                     THEN t.trimHistory[1][i].pnl ELSE 0])
                  ELSE 0
       IN own + RealizedUpTo(Tail(trades), date)

NoOpenPositions == \A i \in DOMAIN entries : entries[i].status # "open"

\* C22: without open positions, the last point dated d carries startingBalance +
\* realized P&L exited up to d + signed cash flow up to d, and every point after the
\* first has dayPnL = balance - previous balance - cashFlow
C22_CurveBalances ==
  lastCall.op = "renderEquityCurve" /\ NoOpenPositions =>
    LET curve == lastCall.value
    IN /\ \A i \in DOMAIN curve :
            (\A j \in DOMAIN curve : j > i => curve[j].date # curve[i].date) =>
              curve[i].balance =
                startingAccountSize + RealizedUpTo(entries, curve[i].date)
                  + getCashFlowUpToDate(transactions, curve[i].date)
       /\ \A i \in DOMAIN curve :
            i > 1 => curve[i].dayPnL =
                       curve[i].balance - curve[i - 1].balance - curve[i].cashFlow

\* the spec scenario: a trade closed on day 5 with P&L 200, a deposit of 500 on day 3
C22_Witness ==
  /\ lastCall.op = "renderEquityCurve" /\ lastCall.from = Null /\ lastCall.to = Null
  /\ Len(entries) = 1 /\ entries[1].status = "closed" /\ entries[1].pnl = 200
  /\ Len(transactions) = 1 /\ transactions[1].amount = 500
  /\ \E i, j \in DOMAIN lastCall.value :
       /\ lastCall.value[i].date = 3 /\ lastCall.value[i].balance = 10500
       /\ lastCall.value[i].cashFlow = 500
       /\ lastCall.value[j].date = 5 /\ lastCall.value[j].balance = 10700
       /\ lastCall.value[j].dayPnL = 200

----
(* Specification SpecIds: records added to and deleted from the journal    *)
(* and the cash-flow ledger while the clock may or may not advance         *)
(* between two calls.                                                      *)
MaxIdEntries == 2
MaxIdTx == 2

NextIds ==
  \/ \E e \in RefreshTrades : Len(entries) < MaxIdEntries /\ addJournalEntry(e)
  \/ \E id \in Ids : deleteJournalEntry(id)
  \/ \E ty \in {"deposit", "withdrawal"}, a \in Amounts :
        Len(transactions) < MaxIdTx /\ addCashFlowTransaction(ty, a, now)
  \/ \E id \in Ids : deleteCashFlowTransaction(id)
  \/ Tick

SpecIds == InitAccount /\ [][NextIds]_vars

\* C23: all journal entries have pairwise distinct ids, and so have all cash-flow
\* transactions, also when two records are added within one clock millisecond
C23_DistinctIds ==
  /\ \A i, j \in DOMAIN entries : entries[i].id = entries[j].id => i = j
  /\ \A i, j \in DOMAIN transactions :
       transactions[i].id = transactions[j].id => i = j

----
(* Specification SpecCacheStorage: IncrementalStatsCalculator from its     *)
(* construction on, with the outcome of every storage call an input: a     *)
(* read resolves with the stored item or rejects, a write resolves or      *)
(* rejects.                                                                *)

\* a record persisted by an earlier session
StoredRecord(version, trades) ==
  [RecomputedStats(trades) EXCEPT !.version = version, !.lastUpdated = Some(0),
                                  !.cachedAt = 0]

StorageReads ==
  {[ok |-> FALSE, item |-> Null], [ok |-> TRUE, item |-> Null]}
    \cup {[ok |-> TRUE, item |-> Some(StoredRecord(v, trades))] :
            v \in {1, 2}, trades \in CacheLists \ {<<>>}}

\* init(): the cache left after storage.getItem resolved with item
loadedCache(item) == IF item = Null THEN _createEmptyCache ELSE item[1]

\* _saveCache(): a rejected setItem is caught and logged
_saveCache(setItemFails) == [threw |-> FALSE]

\* IncrementalStatsCalculator.init()
calculatorInit(read) ==
  /\ IF stats.calculatorInitialized \/ ~read.ok
       THEN UNCHANGED <<statsCache, stats>>
       ELSE /\ statsCache' = loadedCache(read.item)
            /\ stats' = [stats EXCEPT !.calculatorInitialized = TRUE]
  /\ lastCall' = [op |-> "IncrementalStatsCalculator.init", value |-> Null, dates |-> {},
                  read |-> read, ran |-> ~stats.calculatorInitialized,
                  threw |-> ~stats.calculatorInitialized /\ ~read.ok, at |-> now]
  /\ UNCHANGED <<account, accountProxy, listeners, storage, saves,
                 entries, transactions, totalDeposits, totalWithdrawals,
                 startingAccountSize, accountCache, now, eodCache, priceCache,
                 currentView, polls>>

\* calculateAndCacheStats(trades), the write of _saveCache failing or not
SavingCalculateAndCacheStats(trades, setItemFails) ==
  /\ statsCache' = CachedStats(statsCache, trades)
  /\ lastCall' = [op |-> "calculateAndCacheStats", value |-> Some(statsCache'),
                  dates |-> {}, arg |-> trades, at |-> now, before |-> statsCache,
                  hit |-> _isCacheValid(statsCache, trades),
                  setItemFails |-> ~_isCacheValid(statsCache, trades) /\ setItemFails,
                  threw |-> ~_isCacheValid(statsCache, trades)
                              /\ _saveCache(setItemFails).threw]
  /\ UNCHANGED StatsFrame

\* invalidateCache(), the write of _saveCache failing or not
SavingInvalidateCache(setItemFails) ==
  /\ statsCache' = invalidateCache(statsCache)
  /\ lastCall' = [op |-> "invalidateCache", value |-> Null, dates |-> {}, at |-> now,
                  before |-> statsCache, setItemFails |-> setItemFails,
                  threw |-> _saveCache(setItemFails).threw]
  /\ UNCHANGED StatsFrame

InitCacheStorage ==
  /\ transactions = <<>>
  /\ totalDeposits = 0
  /\ totalWithdrawals = 0
  /\ startingAccountSize = DefaultStartingAccountSize
  /\ accountCache = EmptyAccountCache
  /\ account = DefaultAccount
  /\ accountProxy = Null
  /\ listeners = <<>>
  /\ storage = EmptyStorage
  /\ saves = NoSaves
  /\ lastCall = [op |-> "init", value |-> Null, dates |-> {}]
  /\ statsCache = Null
  /\ eodCache = EmptyEODCache
  /\ priceCache = [k \in Tickers |-> Null]
  /\ stats = [IdleStats EXCEPT !.calculatorInitialized = FALSE]
  /\ polls = NoPolls
  /\ entries = <<>>
  /\ now = 1
  /\ currentView = "journal"

NextCacheStorage ==
  \/ \E read \in StorageReads : calculatorInit(read)
  \/ \E trades \in CacheLists, setItemFails \in BOOLEAN :
        SavingCalculateAndCacheStats(trades, setItemFails)
  \/ \E setItemFails \in BOOLEAN : SavingInvalidateCache(setItemFails)
  \/ statsCache # Null /\ Tick

SpecCacheStorage == InitCacheStorage /\ [][NextCacheStorage]_vars

ColdCacheAt(cache, at) == cache = [EmptyStatsCache EXCEPT !.cachedAt = at]

\* C24: an init() that reads a persisted record whose version is not the version the
\* code writes starts from an empty cache
C24_UnknownVersionDiscarded ==
  /\ lastCall.op = "IncrementalStatsCalculator.init" /\ lastCall.ran
  /\ lastCall.read.ok /\ lastCall.read.item # Null
  /\ lastCall.read.item[1].version # EmptyStatsCache.version
  => ColdCacheAt(statsCache, lastCall.at)

\* C25: a storage failure never leaves the stats cache: an init() whose read fails
\* completes with an empty cache, and calculateAndCacheStats and invalidateCache
\* whose write fails complete with the in-memory cache updated
C25_StorageFailureContained ==
  /\ lastCall.op = "IncrementalStatsCalculator.init" /\ lastCall.ran /\ ~lastCall.read.ok
       => ~lastCall.threw /\ ColdCacheAt(statsCache, lastCall.at)
  /\ lastCall.op = "calculateAndCacheStats" /\ lastCall.setItemFails
       => ~lastCall.threw /\ statsCache = RecomputedStats(lastCall.arg)
  /\ lastCall.op = "invalidateCache" /\ lastCall.setItemFails
       => ~lastCall.threw /\ ColdCacheAt(statsCache, lastCall.at)

----
(* state.account: the account record, replaced wholesale by                *)
(* dataManager.confirmClearAllData, and the Proxy the account getter       *)
(* creates once.  accountProxy is null, <<"current">> when the Proxy wraps *)
(* the object state.state.account holds, or <<"detached", o>> when it      *)
(* wraps an object o that state.state.account no longer holds.             *)

\* the object the Proxy wraps after the account getter ran
ProxyAfterGet(proxy) == IF proxy = Null THEN <<"current">> ELSE proxy

\* state.account[prop] for a plain property: target[prop] of the cached Proxy
accountGet(proxy, current, prop) ==
  IF ProxyAfterGet(proxy) = <<"current">> THEN current[prop]
  ELSE ProxyAfterGet(proxy)[2][prop]

\* AppState.updateAccount(updates): only riskPercent and maxPositionPercent pass
updateAccount(updates) ==
  LET allowedUpdates == [f \in DOMAIN updates \cap {"riskPercent", "maxPositionPercent"}
                           |-> updates[f]]
  IN /\ account' = ObjectAssign(account, allowedUpdates)
     /\ lastCall' = [op |-> "updateAccount", value |-> Null, dates |-> {}]
     /\ UNCHANGED <<accountProxy, listeners, storage, saves, entries, transactions, totalDeposits,
                    totalWithdrawals, startingAccountSize, accountCache, now,
                    statsCache, eodCache, priceCache, currentView, stats, polls>>

\* a caller reads state.account.riskPercent or state.account.maxPositionPercent
ReadAccount(prop) ==
  /\ accountProxy' = ProxyAfterGet(accountProxy)
  /\ lastCall' = [op |-> "account", value |-> Some(accountGet(accountProxy, account, prop)),
                  dates |-> {}, prop |-> prop]
  /\ UNCHANGED <<account, listeners, storage, saves, entries, transactions, totalDeposits,
                 totalWithdrawals, startingAccountSize, accountCache, now, statsCache,
                 eodCache, priceCache, currentView, stats, polls>>

----
(* Journal persistence (AppState._saveJournalImmediate, loadJournal).  An   *)
(* execution of _saveJournalImmediate iterates the array that was           *)
(* state.journal.entries when its loop began: target is <<"live">> while    *)
(* state.journal.entries is still that array, <<"detached", a>> once the    *)
(* journal has been given a new array and the old one holds a.  index is    *)
(* the position of the trade whose write is awaited.                        *)

iteratedArray(x, live) == IF x.target = <<"live">> THEN live ELSE x.target[2]

\* the first position from k on that holds a trade with an id, 0 when there is none
RECURSIVE nextWithId(_, _)
nextWithId(arr, k) ==
  IF k > Len(arr) THEN 0
  ELSE IF arr[k].id # 0 THEN k
  ELSE nextWithId(arr, k + 1)

\* the for...of loop runs on from position k up to its next await: the write of the
\* next trade that has an id, or the write of the index after the last position
saveLoopFrom(x, live, k) ==
  LET arr == iteratedArray(x, live)
      j == nextWithId(arr, k)
  IN IF j = 0 THEN [x EXCEPT !.pc = "index", !.index = 0, !.trade = Null]
     ELSE [x EXCEPT !.pc = "trade", !.index = j, !.trade = Some(arr[j])]

\* state.journal.entries is assigned a new array: the loops in progress keep the old one
detachSaves(sv, old) ==
  [sv EXCEPT !.running = {IF x.target = <<"live">>
                            THEN [x EXCEPT !.target = <<"detached", old>>]
                            ELSE x : x \in sv.running}]

PersistFrame ==
  <<account, accountProxy, listeners, entries, transactions, totalDeposits,
    totalWithdrawals, startingAccountSize, accountCache, now, lastCall, statsCache,
    eodCache, priceCache, currentView, stats, polls>>

\* the debounce timer fires: _saveJournalImmediate() runs up to its first await
SaveTimerFires ==
  /\ saves.timer
  /\ saves' = [timer |-> FALSE,
               running |-> saves.running \cup
                 {saveLoopFrom([target |-> <<"live">>, index |-> 0, tradeIds |-> <<>>,
                                pc |-> "trade", trade |-> Null], entries, 1)}]
  /\ UNCHANGED <<PersistFrame, storage>>

\* await storage.setItem(`trade_${trade.id}`, ...) resolves: push the id, loop on
SaveTradeWritten ==
  \E x \in saves.running :
    /\ x.pc = "trade"
    /\ storage' = [storage EXCEPT !.trades[x.trade[1].id] = x.trade]
    /\ saves' = [saves EXCEPT !.running = (@ \ {x}) \cup
                   {saveLoopFrom([x EXCEPT !.tradeIds = Append(@, x.trade[1].id)],
                                 entries, x.index + 1)}]
    /\ UNCHANGED PersistFrame

\* await storage.setItem('riskCalcJournalIndex', tradeIds) resolves: the save ends
SaveIndexWritten ==
  \E x \in saves.running :
    /\ x.pc = "index"
    /\ storage' = [storage EXCEPT !.journalIndex = Some(x.tradeIds)]
    /\ saves' = [saves EXCEPT !.running = @ \ {x}]
    /\ UNCHANGED PersistFrame

\* _migrateJournalToIndividualStorageIfNeeded(): the items it leaves
_migrateJournalToIndividualStorageIfNeeded(st) ==
  IF st.journal = Null \/ st.journalIndex # Null THEN st
  ELSE LET oldJournal == st.journal[1]
           withId == SelectSeq(oldJournal, LAMBDA t : t.id # 0)
           last(id) == CHOOSE i \in DOMAIN withId :
                         withId[i].id = id /\ \A j \in DOMAIN withId :
                                                 withId[j].id = id => j <= i
       IN [st EXCEPT !.trades = [id \in DOMAIN st.trades |->
                                   IF \E i \in DOMAIN withId : withId[i].id = id
                                     THEN Some(withId[last(id)]) ELSE st.trades[id]],
                     !.journalIndex = Some([i \in DOMAIN withId |-> withId[i].id]),
                     !.journal = Null]

\* loadJournal(): state.journal.entries after a load from the items st
loadJournal(st) ==
  LET m == _migrateJournalToIndividualStorageIfNeeded(st)
      tradeIndex == m.journalIndex
  IN IF tradeIndex # Null
       THEN LET trades == [i \in DOMAIN tradeIndex[1] |-> m.trades[tradeIndex[1][i]]]
                kept == SelectSeq(trades, LAMBDA t : t # Null)
            IN [i \in DOMAIN kept |-> kept[i][1]]
       ELSE <<>>

\* the items confirmClearAllData leaves: its removals, then saveAllImmediate()
clearedStorage(st) ==
  [st EXCEPT !.settings = Some([startingAccountSize |-> DefaultStartingAccountSize]),
             !.journal = Null,
             !.journalIndex = Some(<<>>),
             !.cashFlow = Some([transactions |-> <<>>, totalDeposits |-> 0,
                                totalWithdrawals |-> 0])]

\* dataManager.confirmClearAllData(): the state reset, the cache invalidation, the
\* call of stats.refresh() and the events emitted at the end
confirmClearAllData ==
  LET L == Ledger(<<>>, <<>>, 0, 0, DefaultStartingAccountSize)
      size == currentSizeGetter(_invalidateAccountCache(accountCache), L)
  IN /\ startingAccountSize' = DefaultStartingAccountSize
     /\ account' = DefaultAccount
     /\ accountProxy' = IF accountProxy = <<"current">> THEN <<"detached", account>>
                        ELSE ProxyAfterGet(accountProxy)
     /\ transactions' = <<>>
     /\ totalDeposits' = 0
     /\ totalWithdrawals' = 0
     /\ entries' = <<>>
     /\ priceCache' = [k \in DOMAIN priceCache |-> Null]
     /\ accountCache' = size.cache
     /\ eodCache' = OnAccountSizeChanged_eod(
                       OnCashFlowChanged_eod(MarkStale(eodCache), <<>>))
     /\ stats' = refresh(stats, <<>>, priceCache')
     /\ lastCall' = [op |-> "confirmClearAllData", value |-> Null, dates |-> {},
                     writingTrades |-> \E x \in saves.running : x.pc = "trade"]
     /\ storage' = clearedStorage(storage)
     /\ saves' = detachSaves(saves, entries)
     /\ UNCHANGED <<now, statsCache, currentView, polls, listeners>>

----
(* Specification SpecAccountProxy: account updates, reads through the      *)
(* public getter and clear-all, on a ledger with cash flow.                *)
MaxProxyTx == 1

AccountFieldUpdates ==
  {[riskPercent |-> 2], [maxPositionPercent |-> 50],
   [riskPercent |-> 1, maxPositionPercent |-> 100, currentSize |-> 0]}

NextAccountProxy ==
  \/ \E updates \in AccountFieldUpdates : updateAccount(updates)
  \/ \E prop \in {"riskPercent", "maxPositionPercent"} : ReadAccount(prop)
  \/ confirmClearAllData
  \/ \E a \in Amounts : Len(transactions) < MaxProxyTx
                          /\ addCashFlowTransaction("deposit", a, now)
  \/ RefreshBuildDone
  \/ RefreshPnlDone
  \/ RefreshCurveDone
  \/ RefreshThrows

SpecAccountProxy == InitAccount /\ [][NextAccountProxy]_vars

\* C26: riskPercent and maxPositionPercent read through the public state.account
\* getter are the values of the current account record: the reset defaults right
\* after a clear-all, the values of the latest updateAccount afterwards
C26_AccountGetterCurrent ==
  lastCall.op = "account" => lastCall.value = Some(account[lastCall.prop])

----
(* AppState.on / off / emit for one event.  listeners is the array of the  *)
(* callbacks registered for it.  What a callback does when it is invoked   *)
(* is an input of emit: offs[c] is the callback that c unsubscribes during *)
(* the emission, 0 when it unsubscribes nothing.                           *)

\* callbacks.indexOf(callback): 0 when absent
indexOf(callbacks, callback) ==
  IF \E i \in 1..Len(callbacks) : callbacks[i] = callback
  THEN CHOOSE i \in 1..Len(callbacks) :
         callbacks[i] = callback /\ \A j \in 1..(i - 1) : callbacks[j] # callback
  ELSE 0

\* callbacks.splice(index, 1)
splice1(callbacks, index) ==
  [i \in 1..(Len(callbacks) - 1) |->
     IF i < index THEN callbacks[i] ELSE callbacks[i + 1]]

\* AppState.off(event, callback) on the array of the event
off(callbacks, callback) ==
  IF indexOf(callbacks, callback) > 0
  THEN splice1(callbacks, indexOf(callbacks, callback))
  ELSE callbacks

\* Array.prototype.forEach over an array the callbacks change: the length is read
\* once, index k is visited when the array still has it
RECURSIVE forEach(_, _, _, _, _)
forEach(callbacks, k, len, offs, invoked) ==
  IF k > len THEN [callbacks |-> callbacks, invoked |-> invoked]
  ELSE IF k > Len(callbacks) THEN forEach(callbacks, k + 1, len, offs, invoked)
  ELSE forEach(IF offs[callbacks[k]] = 0 THEN callbacks
               ELSE off(callbacks, offs[callbacks[k]]),
               k + 1, len, offs, Append(invoked, callbacks[k]))

ListenerFrame ==
  UNCHANGED <<entries, transactions, totalDeposits, totalWithdrawals,
              startingAccountSize, accountCache, now, statsCache, eodCache,
              priceCache, currentView, stats, polls, account, accountProxy,
              storage, saves>>

\* AppState.on(event, callback)
on(callback) ==
  /\ listeners' = Append(listeners, callback)
  /\ lastCall' = [op |-> "on", value |-> Null, dates |-> {}]
  /\ ListenerFrame

\* AppState.off(event, callback), or the function on() returned
Off(callback) ==
  /\ listeners' = off(listeners, callback)
  /\ lastCall' = [op |-> "off", value |-> Null, dates |-> {}]
  /\ ListenerFrame

\* AppState.emit(event, data)
emit(offs) ==
  LET r == forEach(listeners, 1, Len(listeners), offs, <<>>)
  IN /\ listeners' = r.callbacks
     /\ lastCall' = [op |-> "emit", value |-> Null, dates |-> {},
                     registered |-> listeners, invoked |-> r.invoked, offs |-> offs]
     /\ ListenerFrame

----
(* Specification SpecListeners: subscriptions, unsubscriptions and         *)
(* emissions during which callbacks unsubscribe.                           *)
MaxListeners == 3
MaxCallbacks == 3

CallbackIds == 1..MaxCallbacks

NextListeners ==
  \/ \E callback \in CallbackIds :
       Len(listeners) < MaxListeners /\ on(callback)
  \/ \E callback \in CallbackIds : Off(callback)
  \/ \E offs \in [CallbackIds -> {0} \cup CallbackIds] : emit(offs)

SpecListeners == InitAccount /\ [][NextListeners]_vars

\* C27: emit invokes every callback registered for the event when emit starts
\* exactly once, also when callbacks unsubscribe during the emission
C27_EmitInvokesRegistered ==
  lastCall.op = "emit" => lastCall.invoked = lastCall.registered

----
(* Specification SpecRefreshLive: the stats view is active and no API key   *)
(* is configured, so startAutoRefresh() has returned at its guard and the  *)
(* change handlers are the only callers of refresh().  Every awaited step  *)
(* of a refresh() in flight eventually settles.                            *)
MaxLiveEntries == 1
MaxLiveTx == 1

InitRefreshLive ==
  /\ InitBase
  /\ entries = <<>>
  /\ now = 1
  /\ currentView = "stats"

NextRefreshLive ==
  \/ \E e \in RefreshTrades : Len(entries) < MaxLiveEntries /\ addJournalEntry(e)
  \/ \E id \in Ids : deleteJournalEntry(id)
  \/ \E a \in Amounts : Len(transactions) < MaxLiveTx
                          /\ addCashFlowTransaction("deposit", a, now)
  \/ \E v \in StartingSizes : updateSettings([startingAccountSize |-> v])
  \/ \E f \in FetchedPrices : RefreshFetchDone(f)
  \/ RefreshBuildDone
  \/ RefreshPnlDone
  \/ RefreshCurveDone
  \/ RefreshThrows
  \/ Tick

RefreshSettles ==
  /\ WF_vars(\E f \in FetchedPrices : RefreshFetchDone(f))
  /\ WF_vars(RefreshBuildDone)
  /\ WF_vars(RefreshPnlDone)
  /\ WF_vars(RefreshCurveDone)

SpecRefreshLive == InitRefreshLive /\ [][NextRefreshLive]_vars /\ RefreshSettles

ChangeOps ==
  {"addJournalEntry", "updateJournalEntry", "deleteJournalEntry",
   "addCashFlowTransaction", "deleteCashFlowTransaction", "updateSettings"}

\* C28: a change event that arrives on the active stats view while a refresh is in
\* flight is eventually followed by a refresh cycle that starts after it (here a
\* cycle can only be started by a change handler whose refresh() is not skipped)
C28_RefreshAfterEvent ==
  (lastCall.op \in ChangeOps /\ lastCall.refreshSkipped)
    ~> (lastCall.op \in ChangeOps /\ ~lastCall.refreshSkipped)

----
(* Stats.calculate() of the stats view whose realized account balance is   *)
(* computed from the cash-flow breakdown, and the breakdown itself.        *)

RECURSIVE BreakdownLoop(_, _, _, _)
\* the for loop of calculateCashFlowBreakdown over the transactions
BreakdownLoop(txs, dateFrom, dateTo, acc) ==
  IF txs = <<>> THEN acc
  ELSE LET tx == Head(txs)
           txDateStr == formatDate(tx.timestamp)
           inRange == /\ ~(dateFrom # Null /\ txDateStr < dateFrom[1])
                      /\ ~(dateTo # Null /\ txDateStr > dateTo[1])
       IN BreakdownLoop(Tail(txs), dateFrom, dateTo,
            IF ~inRange THEN acc
            ELSE IF tx.type = "deposit"
              THEN [acc EXCEPT !.deposits = @ + tx.amount]
              ELSE [acc EXCEPT !.withdrawals = @ + tx.amount])

\* calculateCashFlowBreakdown(dateFrom, dateTo)
calculateCashFlowBreakdown(L, dateFrom, dateTo) ==
  LET all == BreakdownLoop(L.transactions, Null, Null, [deposits |-> 0, withdrawals |-> 0])
      inRange == BreakdownLoop(L.transactions, dateFrom, dateTo,
                               [deposits |-> 0, withdrawals |-> 0])
  IN IF dateFrom = Null /\ dateTo = Null
       THEN [net |-> getCashFlowNet(L), deposits |-> all.deposits,
             withdrawals |-> all.withdrawals]
       ELSE [net |-> inRange.deposits - inRange.withdrawals,
             deposits |-> inRange.deposits, withdrawals |-> inRange.withdrawals]

\* Stats.calculate(): the balance fields of this.stats under the active date filter
calculate(L, dateFrom, dateTo) ==
  LET startingBalance == L.startingAccountSize
      allTradesRealizedPnL == calculateRealizedPnL(L.entries)
      cashFlowBreakdown == calculateCashFlowBreakdown(L, dateFrom, dateTo)
  IN [realizedAccount |-> startingBalance + allTradesRealizedPnL + cashFlowBreakdown.net,
      accountAtRangeStart |-> startingBalance,
      netCashFlow |-> cashFlowBreakdown.net,
      deposits |-> cashFlowBreakdown.deposits,
      withdrawals |-> cashFlowBreakdown.withdrawals]

\* Stats.calculate() with the date filter the user has set
CallCalculate(dateFrom, dateTo) ==
  /\ lastCall' = [op |-> "Stats.calculate", dates |-> {}, from |-> dateFrom, to |-> dateTo,
                  value |-> Some(calculate(CurrentLedger, dateFrom, dateTo))]
  /\ UNCHANGED <<account, accountProxy, listeners, storage, saves, entries, transactions,
                 totalDeposits, totalWithdrawals, startingAccountSize, accountCache,
                 now, statsCache, eodCache, priceCache, currentView, stats, polls>>

----
(* Specification SpecCalculate: a ledger with closed trades and cash flow  *)
(* on several days, and Stats.calculate() under each date filter.          *)
MaxCalculateEntries == 1
MaxCalculateTx == 2

NextCalculate ==
  \/ \E e \in AccountTrades : Len(entries) < MaxCalculateEntries /\ addJournalEntry(e)
  \/ \E type \in {"deposit", "withdrawal"}, a \in Amounts, ts \in EODTimestamps :
        Len(transactions) < MaxCalculateTx /\ addCashFlowTransaction(type, a, ts)
  \/ \E id \in Ids : deleteCashFlowTransaction(id)
  \/ \E f \in PnLFrom, t \in PnLTo : CallCalculate(f, t)
  \/ Tick

SpecCalculate == InitAccount /\ [][NextCalculate]_vars

\* C29: under every date filter the realized account balance of Stats.calculate() is
\* startingBalance + realized P&L of all trades + net cash flow of all transactions,
\* which is state.currentSize
C29_RealizedAccount ==
  lastCall.op = "Stats.calculate" =>
    /\ lastCall.value[1].realizedAccount =
         startingAccountSize + calculateRealizedPnL(entries) + getNetCashFlow(transactions)
    /\ lastCall.value[1].realizedAccount =
         RecalcCurrentSize(EmptyAccountCache, CurrentLedger).value

----
(* Specification SpecPnLRange: calculatePnL over a journal of open         *)
(* positions without prices (no trade has gained or lost anything) and a   *)
(* cash-flow history that starts before or on the day of the first trade.  *)
MaxRangeEntries == 1
MaxRangeTx == 2

\* today is day 1; the trade is entered on day 1
RangeTrades == {NewTrade("open", 0, <<>>, TicksPerDay)}

\* cash flow on day 0 and on day 1
RangeTimestamps == {TicksPerDay - 1, TicksPerDay}

RangeFilters == {Null, Some(1)}

InitPnLRange ==
  /\ InitBase
  /\ entries = <<>>
  /\ now = TicksPerDay
  /\ currentView = "journal"

NextPnLRange ==
  \/ \E e \in RangeTrades : Len(entries) < MaxRangeEntries /\ addJournalEntry(e)
  \/ \E type \in {"deposit", "withdrawal"}, a \in Amounts, ts \in RangeTimestamps :
        Len(transactions) < MaxRangeTx /\ addCashFlowTransaction(type, a, ts)
  \/ \E f \in RangeFilters, t \in RangeFilters : CallCalculatePnL(f, t, NoPrices)

SpecPnLRange == InitPnLRange /\ [][NextPnLRange]_vars

\* every position is open and unpriced: realized and unrealized P&L are 0 on every day
NoTradeMoved ==
  /\ \A i \in DOMAIN entries : entries[i].status = "open" /\ entries[i].pnl = 0
  /\ \A k \in DOMAIN priceCache : priceCache[k] = Null

\* C30: calculatePnL(dateFrom, dateTo).pnl excludes every capital movement: it is 0
\* when no trade gained or lost anything in the range, whatever the cash-flow history
C30_PnLExcludesCashFlow ==
  lastCall.op = "calculatePnL" /\ NoTradeMoved => lastCall.value[1].pnl = 0

----
(* Specification SpecCashFlowTotals: deposits and withdrawals added and    *)
(* deleted, by known and by unknown ids.                                   *)
MaxTotalsTx == 3

TotalsAmounts == {200, 500}

\* deleteCashFlowTransaction(id) when no transaction has the id: return null
deleteCashFlowTransactionNotFound(id) ==
  /\ FindIndex(transactions, id, 1) = 0
  /\ lastCall' = [op |-> "deleteCashFlowTransaction", value |-> Null, dates |-> {},
                  dropped |-> {}, refreshSkipped |-> FALSE, id |-> id]
  /\ UNCHANGED <<account, accountProxy, listeners, storage, saves, entries, transactions,
                 totalDeposits, totalWithdrawals, startingAccountSize, accountCache,
                 now, statsCache, eodCache, priceCache, currentView, stats, polls>>

NextCashFlowTotals ==
  \/ \E type \in {"deposit", "withdrawal"}, a \in TotalsAmounts :
        Len(transactions) < MaxTotalsTx /\ addCashFlowTransaction(type, a, now)
  \/ \E id \in Ids : deleteCashFlowTransaction(id)
  \/ \E id \in Ids : deleteCashFlowTransactionNotFound(id)
  \/ Tick

SpecCashFlowTotals == InitAccount /\ [][NextCashFlowTotals]_vars

\* the sum of the amounts of the stored transactions of one type
SumOfType(txs, type) ==
  SumSeq([i \in DOMAIN txs |-> IF txs[i].type = type THEN txs[i].amount ELSE 0])

\* C31: after any adds and deletes of deposits and withdrawals, totalDeposits and
\* totalWithdrawals are the sums of the stored deposit and withdrawal amounts and
\* getCashFlowNet() equals getNetCashFlow(transactions); a delete with an unknown id
\* returns null and changes neither the ledger nor what the event handlers maintain
C31_CashFlowTotals ==
  /\ [](/\ totalDeposits = SumOfType(transactions, "deposit")
        /\ totalWithdrawals = SumOfType(transactions, "withdrawal")
        /\ getCashFlowNet(CurrentLedger) = getNetCashFlow(transactions))
  /\ [][(lastCall'.op = "deleteCashFlowTransaction" /\ lastCall'.value = Null) =>
          UNCHANGED <<transactions, totalDeposits, totalWithdrawals, accountCache,
                      eodCache, statsCache, stats>>]_vars

\* a delete with an unknown id returned null on a ledger holding a deposit and a
\* withdrawal
C31_Witness ==
  /\ lastCall.op = "deleteCashFlowTransaction"
  /\ lastCall.value = Null
  /\ \E i, j \in DOMAIN transactions :
        transactions[i].type = "deposit" /\ transactions[j].type = "withdrawal"
  /\ totalDeposits > 0 /\ totalWithdrawals > 0

----
(* Specification SpecClearDuringSave: journal changes, their debounced     *)
(* saves running one awaited write at a time, and clear-all.               *)
MaxSaveEntries == 2
MaxSaves == 2

\* a call made in a millisecond in which no entry was created
FreshId == \A i \in DOMAIN entries : entries[i].id # now

NextClearDuringSave ==
  \/ \E e \in RefreshTrades :
       Len(entries) < MaxSaveEntries /\ FreshId /\ addJournalEntry(e)
  \/ Cardinality(saves.running) < MaxSaves /\ SaveTimerFires
  \/ SaveTradeWritten
  \/ SaveIndexWritten
  \/ confirmClearAllData
  \/ RefreshBuildDone
  \/ RefreshPnlDone
  \/ RefreshCurveDone
  \/ RefreshThrows
  \/ Tick

SpecClearDuringSave == InitAccount /\ [][NextClearDuringSave]_vars

\* no save is pending or in progress: all storage writes have completed
SavesIdle == ~saves.timer /\ saves.running = {}

\* C32: when confirmClearAllData ran while a save that started before it was still
\* writing trades, then once all pending storage writes have completed a reload
\* (loadJournal) shows no trades
C32_ClearedJournalStaysEmpty ==
  (lastCall.op = "confirmClearAllData" /\ lastCall.writingTrades /\ SavesIdle) =>
    loadJournal(storage) = <<>>

----
(* Specification SpecSaveDuringEdits: entries added and deleted while      *)
(* debounced saves run one awaited write at a time.                        *)
MaxEditEntries == 2
MaxEditSaves == 2

NextSaveDuringEdits ==
  \/ \E e \in RefreshTrades :
       Len(entries) < MaxEditEntries /\ FreshId /\ addJournalEntry(e)
  \/ \E id \in Ids : deleteJournalEntry(id)
  \/ Cardinality(saves.running) < MaxEditSaves /\ SaveTimerFires
  \/ SaveTradeWritten
  \/ SaveIndexWritten
  \/ Tick

SpecSaveDuringEdits == InitAccount /\ [][NextSaveDuringEdits]_vars

NoDuplicates(seq) == \A i, j \in DOMAIN seq : seq[i] = seq[j] => i = j

\* C33: the journal index a save writes holds no id twice, and once the last
\* debounced save has completed loadJournal returns exactly the in-memory entries
\* that have an id, also when entries were added or deleted during a save's loop
C33_SavedIndexMatchesJournal ==
  /\ storage.journalIndex # Null => NoDuplicates(storage.journalIndex[1])
  /\ (SavesIdle /\ lastCall.op # "init") =>
       loadJournal(storage) = SelectSeq(entries, LAMBDA t : t.id # 0)

----
(* Specification SpecImport: a page that starts with nothing persisted;    *)
(* backups are imported (valid ones and files that are rejected), the page *)
(* is reloaded, all data is cleared, calculateAndCacheStats persists its   *)
(* record, and the per-metric accessors are read. The awaited storage      *)
(* operations of one handler are taken together: no other handler of this  *)
(* specification touches the keys importData writes while it runs.         *)

MaxImportTrades == 2

ImportTrades ==
  {[NewTrade("open", 0, <<>>, 1) EXCEPT !.id = 1],
   [NewTrade("closed", 100, <<>>, 1) EXCEPT !.id = 1],
   [NewTrade("closed", -50, <<>>, 1) EXCEPT !.id = 1],
   [NewTrade("closed", -50, <<>>, 1) EXCEPT !.id = 2]}

\* the journal array of a backup: every trade has its own id
ImportJournals(n) ==
  {l \in UNION {[1..k -> ImportTrades] : k \in 0..n} :
     \A i, j \in DOMAIN l : l[i].id = l[j].id => i = j}

\* what the selected file holds: text that is not JSON, the JSON value null, or an
\* object whose settings and journal are present or not (old format: no caches, no
\* cashFlow, no apiKeys, no journalMeta)
ImportFiles(n) ==
  {<<"text">>, <<"null">>}
    \cup {<<"object", [settings |-> s, journal |-> j]>> :
            s \in {Null} \cup {Some([startingAccountSize |-> v]) : v \in StartingSizes},
            j \in {Null} \cup {Some(l) : l \in ImportJournals(n)}}

\* JSON.parse succeeded and neither data.settings nor data.journal is missing
isValidBackup(file) ==
  /\ file[1] = "object"
  /\ file[2].settings # Null
  /\ file[2].journal # Null

\* the items after importData's removals and writes for the parsed object data
importedStorage(st, data) ==
  LET existingIndex == st.journalIndex
      indexed(id) == existingIndex # Null
                       /\ \E i \in DOMAIN existingIndex[1] : existingIndex[1][i] = id
  IN [st EXCEPT !.trades = [id \in DOMAIN st.trades |->
                              IF indexed(id) THEN Null ELSE st.trades[id]],
                !.journalIndex = Null,
                !.settings = data.settings,
                !.journal = data.journal,
                !.cashFlow = Some([transactions |-> <<>>, totalDeposits |-> 0,
                                   totalWithdrawals |-> 0])]

importData_WriteFirst(file) ==
  /\ storage' = [storage EXCEPT !.journalIndex = Null]
  /\ lastCall' = [op |-> "importData", value |-> Null, dates |-> {},
                  valid |-> isValidBackup(file), before |-> storage]
  /\ UNCHANGED <<account, accountProxy, listeners, saves,
                 entries, transactions, totalDeposits, totalWithdrawals,
                 startingAccountSize, accountCache, now, statsCache, eodCache,
                 priceCache, currentView, stats, polls>>

\* dataManager.importData(), from the reader's onload on: a file that does not parse
\* or lacks settings or journal ends in the catch or the early return
importData(file) ==
  /\ storage' = IF isValidBackup(file) THEN importedStorage(storage, file[2])
                ELSE storage
  /\ lastCall' = [op |-> "importData", value |-> Null, dates |-> {},
                  valid |-> isValidBackup(file), before |-> storage]
  /\ UNCHANGED <<account, accountProxy, listeners, saves,
                 entries, transactions, totalDeposits, totalWithdrawals,
                 startingAccountSize, accountCache, now, statsCache, eodCache,
                 priceCache, currentView, stats, polls>>

\* window.location.reload(): a new page loads settings, journal and cash flow from
\* the items and initialises the incremental calculator from statsCache_v1
reload ==
  LET loadedCashFlow == IF storage.cashFlow # Null THEN storage.cashFlow[1]
                        ELSE [transactions |-> <<>>, totalDeposits |-> 0,
                              totalWithdrawals |-> 0]
  IN /\ startingAccountSize' = IF storage.settings # Null
                                 THEN storage.settings[1].startingAccountSize
                                 ELSE DefaultStartingAccountSize
     /\ entries' = loadJournal(storage)
     /\ storage' = _migrateJournalToIndividualStorageIfNeeded(storage)
     /\ transactions' = loadedCashFlow.transactions
     /\ totalDeposits' = loadedCashFlow.totalDeposits
     /\ totalWithdrawals' = loadedCashFlow.totalWithdrawals
     /\ statsCache' = loadedCache(storage.statsCache)
     /\ account' = DefaultAccount
     /\ accountProxy' = Null
     /\ listeners' = <<>>
     /\ saves' = NoSaves
     /\ accountCache' = EmptyAccountCache
     /\ eodCache' = EmptyEODCache
     /\ priceCache' = NoPrices
     /\ stats' = IdleStats
     /\ polls' = NoPolls
     /\ currentView' = "journal"
     /\ lastCall' = [op |-> "reload", value |-> Null, dates |-> {}]
     /\ UNCHANGED now

\* calculateAndCacheStats(state.journal.entries) with the setItem of _saveCache
PersistingCalculateAndCacheStats ==
  /\ statsCache' = CachedStats(statsCache, entries)
  /\ storage' = IF _isCacheValid(statsCache, entries) THEN storage
                ELSE [storage EXCEPT !.statsCache = Some(statsCache')]
  /\ lastCall' = [op |-> "calculateAndCacheStats", value |-> Some(statsCache'),
                  dates |-> {}]
  /\ UNCHANGED <<account, accountProxy, listeners, saves,
                 entries, transactions, totalDeposits, totalWithdrawals,
                 startingAccountSize, accountCache, now, eodCache, priceCache,
                 currentView, stats, polls>>

InitImport ==
  /\ InitBase
  /\ entries = <<>>
  /\ now = 1
  /\ currentView = "journal"

\* a valid import has scheduled the reload; the page takes no other input until then
ReloadPending == lastCall.op = "importData" /\ lastCall.valid

NextImport ==
  \/ \E file \in ImportFiles(MaxImportTrades) : ~ReloadPending /\ importData(file)
  \/ reload
  \/ ~ReloadPending /\ confirmClearAllData
  \/ ~ReloadPending /\ PersistingCalculateAndCacheStats
  \/ ~ReloadPending /\ ReadWinRate
  \/ ~ReloadPending /\ ReadWinsLosses
  \/ ~ReloadPending /\ ReadProfitFactor

SpecImport == InitImport /\ [][NextImport]_vars

\* C34: after an import followed by a reload, or after clearing all data, a metric
\* read from the incremental calculator is the metric of the trades now in the
\* journal, never one of a stats-cache record computed for the trades that were
\* in the journal before; after a clear the old record is not accepted at all.
C34_NoStaleStatsAfterImportOrClear ==
  /\ lastCall.op = "incrementalWinRate" =>
       lastCall.value = Some(calculateWinRateSinglePass(entries))
  /\ lastCall.op = "incrementalWinsLosses" =>
       lastCall.value = Some(calculateWinsLossesSinglePass(entries))
  /\ lastCall.op = "incrementalProfitFactor" =>
       lastCall.value = Some(calculateProfitFactor(entries))
  /\ lastCall.op = "confirmClearAllData" => ~_isCacheValid(statsCache, entries)

\* C37: an import of a file that does not parse as JSON, or that lacks settings or
\* journal, leaves every persisted item as it was: settings, journal index,
\* per-trade records, cash flow and caches.
C37_InvalidImportWritesNothing ==
  (lastCall.op = "importData" /\ ~lastCall.valid) => storage = lastCall.before

\* a rejected import on a page whose journal and stats cache are persisted
C37_Witness ==
  /\ lastCall.op = "importData"
  /\ ~lastCall.valid
  /\ storage.journalIndex # Null
  /\ storage.journalIndex[1] # <<>>
  /\ storage.statsCache # Null
  /\ storage.settings # Null

----
(* Termination of refresh() under SpecRefreshLive, whose awaited steps     *)
(* settle: each either resolves or rejects.                                *)

\* C35: a refresh() that has set isCalculating sets it back to false, whether its
\* awaited steps resolve or the fetch, calculate(), render() or renderEquityCurve()
\* throws; refresh() never ends with the flag still set, so no later refresh() is
\* skipped forever.
C35_RefreshResetsIsCalculating ==
  /\ stats.isCalculating ~> ~stats.isCalculating
  /\ [][(stats.refreshPc # "idle" /\ stats'.refreshPc = "idle")
          => ~stats'.isCalculating]_vars
  /\ [](stats.refreshPc = "idle" => ~stats.isCalculating)

\* a refresh() whose renderEquityCurve rejected has ended with the flag reset, the
\* journal holding a trade
C35_Witness ==
  /\ lastCall.op = "refresh"
  /\ lastCall.threwAt = "curve"
  /\ ~stats.isCalculating
  /\ stats.refreshPc = "idle"
  /\ entries # <<>>

----
(* Specification SpecAutoRefresh: view changes, whose event names the view *)
(* left and the view entered, and direct calls of startAutoRefresh() and   *)
(* stopAutoRefresh(), the API key being set or not at each call; the       *)
(* journal holds one open position, so the started polls fetch prices.     *)
MaxAutoRefreshInFlight == 2

Views == {"journal", "stats", "positions"}

\* the viewChanged handler of Stats.init for the event {from: currentView, to}
OnViewChanged(to, apiKey) ==
  /\ currentView' = to
  /\ IF to = "stats"
       THEN /\ stats' = startAutoRefresh(stats, apiKey)
            /\ polls' = [(IF apiKey THEN refreshPrices(polls, entries) ELSE polls)
                           EXCEPT !.delayed = @ + 1]
       ELSE /\ stats' = IF currentView = "stats" THEN stopAutoRefresh(stats) ELSE stats
            /\ polls' = polls
  /\ lastCall' = [op |-> "viewChanged", value |-> Null, dates |-> {},
                  from |-> currentView, to |-> to, apiKey |-> apiKey,
                  intervalsBefore |-> stats.intervals]
  /\ UNCHANGED <<account, accountProxy, listeners, storage, saves,
                 entries, transactions, totalDeposits, totalWithdrawals,
                 startingAccountSize, accountCache, now, statsCache,
                 eodCache, priceCache>>

\* a call of startAutoRefresh()
CallStartAutoRefresh(apiKey) ==
  /\ stats' = startAutoRefresh(stats, apiKey)
  /\ polls' = IF apiKey THEN refreshPrices(polls, entries) ELSE polls
  /\ lastCall' = [op |-> "startAutoRefresh", value |-> Null, dates |-> {},
                  apiKey |-> apiKey, intervalsBefore |-> stats.intervals]
  /\ UNCHANGED <<account, accountProxy, listeners, storage, saves,
                 entries, transactions, totalDeposits, totalWithdrawals,
                 startingAccountSize, accountCache, now, statsCache,
                 eodCache, priceCache, currentView>>

\* a call of stopAutoRefresh()
CallStopAutoRefresh ==
  /\ stats' = stopAutoRefresh(stats)
  /\ lastCall' = [op |-> "stopAutoRefresh", value |-> Null, dates |-> {},
                  intervalsBefore |-> stats.intervals]
  /\ UNCHANGED <<account, accountProxy, listeners, storage, saves,
                 entries, transactions, totalDeposits, totalWithdrawals,
                 startingAccountSize, accountCache, now, statsCache,
                 eodCache, priceCache, currentView, polls>>

NextAutoRefresh ==
  \/ \E to \in Views, apiKey \in BOOLEAN :
        InFlight < MaxAutoRefreshInFlight /\ OnViewChanged(to, apiKey)
  \/ \E apiKey \in BOOLEAN :
        InFlight < MaxAutoRefreshInFlight /\ CallStartAutoRefresh(apiKey)
  \/ CallStopAutoRefresh
  \/ \E open \in BOOLEAN : InFlight < MaxAutoRefreshInFlight /\ AutoRefreshTick(open)
  \/ DelayedRefresh
  \/ \E f \in FetchedPrices : RefreshFetchDone(f)
  \/ RefreshBuildDone
  \/ RefreshPnlDone
  \/ RefreshCurveDone
  \/ \E f \in FetchedPrices, c \in BOOLEAN, d \in Days : PricesRefreshed(f, c, d)
  \/ EODChecked
  \/ DetachedBuildDone
  \/ DetachedPnlDone

SpecAutoRefresh == InitEODPolls /\ [][NextAutoRefresh]_vars

====
